---- MODULE Spec2Model ----
(***************************************************************************)
(* LuckeePass vault engine: UserManager (credential files), the            *)
(* EncryptionManager (PBKDF2 key + Fernet tokens), PasswordManager (the    *)
(* five in-memory collections, export_data / import_data, save_data /      *)
(* load_data) and the UI flows that drive them (first-run setup, login,    *)
(* restore from backup, account deletion, the entry forms), and the        *)
(* PasswordGenerator.                                                      *)
(*                                                                         *)
(* Conventions.  A Python str that is stored in a serialised record and    *)
(* may be handed to the cipher is a record [kind, key, s, intact]:         *)
(* kind "plain" is ordinary text s, kind "fernet" is the Fernet token of   *)
(* plaintext s under key; intact = FALSE is a token whose bytes were       *)
(* altered.  Bytes of a file are [raw, json]: the literal leading bytes    *)
(* followed by the UTF-8 text of a JSON document.  Timestamps are          *)
(* readings of an integer clock.                                           *)
(***************************************************************************)
EXTENDS Integers, Sequences, FiniteSets, TLC

VARIABLES
    master_file,    \* luckeepass_master.dat: bcrypt hash, or NoHash
    salt_file,      \* luckeepass_vault_salt.dat: 16 salt bytes, or Absent
    data_file,      \* luckeepass_data.lp: bytes, or NoFile
    um,             \* the UserManager of the running process, or NoUM
    pm,             \* the PasswordManager of the running process, or NoPM
    phase,          \* "off", "startup", "restore", "main"; "codec", "codec_done";
                    \* "fav_build", "fav_view"; "user"
    clock,          \* datetime.now()
    backup,         \* a .lp file the user keeps outside the app directory
    hist            \* record of the last operation and what it was given

vars == <<master_file, salt_file, data_file, um, pm, phase, clock, backup, hist>>

----------------------------------------------------------------------------
(* Bounds and input domains *)

MaxClock == 2
MaxCodecRecords == 3

MaxFavRecords == 6

MasterPasswords == {"correct-horse", "hunter22"}
Salts == {"s1", "s2"}
FileBytes == {"d1", "d2"}

Absent == "<absent>"

----------------------------------------------------------------------------
(* Sequence helpers *)

RemoveAt(s, i) == SubSeq(s, 1, i - 1) \o SubSeq(s, i + 1, Len(s))

ReplaceAt(s, i, e) == [s EXCEPT ![i] = e]

Range(s) == {s[i] : i \in 1..Len(s)}

----------------------------------------------------------------------------
(* base64 *)

B64Table == [b \in {"", "d1", "d2", "s1", "s2"} |->
    CASE b = "" -> ""
      [] b = "d1" -> "ZDE="
      [] b = "d2" -> "ZDI="
      [] b = "s1" -> "czE="
      [] b = "s2" -> "czI="]

b64encode(b) == B64Table[b]

IsB64(x) == \E b \in DOMAIN B64Table : B64Table[b] = x

b64decode(x) == CHOOSE b \in DOMAIN B64Table : B64Table[b] = x

----------------------------------------------------------------------------
(* EncryptionManager *)

\* PBKDF2-HMAC-SHA256, 100000 iterations: a deterministic function of
\* (password, salt), taken to be collision free.
PBKDF2_ITERATIONS == 100000

_derive_key(master_password, salt) ==
    [pw |-> master_password, salt |-> salt, iter |-> PBKDF2_ITERATIONS]

NoKey == [pw |-> "", salt |-> "", iter |-> 0]

EncryptionManager(master_password, salt) ==
    [master_password |-> master_password,
     salt |-> salt,
     key |-> _derive_key(master_password, salt)]

get_salt(em) == em.salt

Plain(s) == [kind |-> "plain", key |-> NoKey, s |-> s, intact |-> TRUE]

\* Fernet.encrypt of a str: the argument is always ordinary text
encrypt(em, data) ==
    [kind |-> "fernet", key |-> em.key, s |-> data.s, intact |-> TRUE]

\* (mutant) a cipher that does not verify the token's HMAC
DecryptRaises_no_hmac(em, t) ==
    ~(t.kind = "fernet" /\ t.key = em.key)

\* (mutant) a cipher that does not authenticate the key
DecryptRaises_any_key(em, t) ==
    ~(t.kind = "fernet" /\ t.intact)

\* Fernet.decrypt raises InvalidToken unless the argument is a token made
\* under the same key whose HMAC still verifies
DecryptRaises(em, t) ==
    ~(t.kind = "fernet" /\ t.intact /\ t.key = em.key)

decrypt(em, t) == Plain(t.s)

----------------------------------------------------------------------------
(* models/file_entry.py.  The objects of the five models carry, next to
   the attributes __init__ assigns, the attribute "type" that
   PasswordManager.favorites assigns; it is Absent until then and is not
   part of to_dict. *)

FileEntry(title, file_data, file_name, file_type, file_size, category, notes, is_favorite, now) ==
    [title |-> title, file_data |-> file_data, file_name |-> file_name,
     file_type |-> file_type, file_size |-> file_size,
     category |-> category, notes |-> notes, is_favorite |-> is_favorite,
     created |-> now, modified |-> now, type |-> Absent]

FileEntry_to_dict(f) ==
    [title |-> f.title,
     file_data |-> Plain(b64encode(f.file_data)),
     file_name |-> f.file_name,
     file_type |-> f.file_type,
     file_size |-> f.file_size,
     category |-> f.category,
     notes |-> Plain(f.notes),
     is_favorite |-> f.is_favorite,
     created |-> f.created,
     modified |-> f.modified]

\* base64.b64decode(data['file_data']) raises on text that is not base64
\* (a Fernet token is not taken to be decodable)
FileEntry_from_dict_raises(d) ==
    d.file_data.kind # "plain" \/ ~IsB64(d.file_data.s)

FileEntry_from_dict(d) ==
    [FileEntry(d.title, b64decode(d.file_data.s), d.file_name, d.file_type,
               d.file_size, d.category, d.notes.s, d.is_favorite, d.created)
        EXCEPT !.modified = d.modified]

\* the loop "for file_data in data['attached_files']" shared by the four
\* other models
AttachedRaises(d) ==
    \E i \in 1..Len(d.attached_files) :
        FileEntry_from_dict_raises(d.attached_files[i])

AttachedFromDict(d) ==
    [i \in 1..Len(d.attached_files) |->
        FileEntry_from_dict(d.attached_files[i])]

AttachedToDict(e) ==
    [i \in 1..Len(e.attached_files) |->
        FileEntry_to_dict(e.attached_files[i])]

----------------------------------------------------------------------------
(* models/password_entry.py *)

PasswordEntry(title, username, password, url, notes, category, is_favorite, attached_files, now) ==
    [title |-> title, username |-> username, password |-> password,
     url |-> url, notes |-> notes, category |-> category,
     is_favorite |-> is_favorite, attached_files |-> attached_files,
     created |-> now, modified |-> now, type |-> Absent]

PasswordEntry_to_dict(e) ==
    [title |-> e.title, username |-> e.username,
     password |-> Plain(e.password), url |-> e.url,
     notes |-> Plain(e.notes), category |-> e.category,
     is_favorite |-> e.is_favorite,
     attached_files |-> AttachedToDict(e),
     created |-> e.created, modified |-> e.modified]

\* (mutant) the attached files are not rebuilt
PasswordEntry_from_dict_no_attachments(d) ==
    [PasswordEntry(d.title, d.username, d.password.s, d.url, d.notes.s,
                   d.category, d.is_favorite, <<>>, d.created)
        EXCEPT !.modified = d.modified]

PasswordEntry_from_dict(d) ==
    [PasswordEntry(d.title, d.username, d.password.s, d.url, d.notes.s,
                   d.category, d.is_favorite, AttachedFromDict(d), d.created)
        EXCEPT !.modified = d.modified]

----------------------------------------------------------------------------
(* models/secure_note.py *)

SecureNote(title, content, category, is_favorite, attached_files, now) ==
    [title |-> title, content |-> content, category |-> category,
     is_favorite |-> is_favorite, attached_files |-> attached_files,
     created |-> now, modified |-> now, type |-> Absent]

SecureNote_to_dict(n) ==
    [title |-> n.title, content |-> Plain(n.content),
     category |-> n.category, is_favorite |-> n.is_favorite,
     attached_files |-> AttachedToDict(n),
     created |-> n.created, modified |-> n.modified]

SecureNote_from_dict(d) ==
    [SecureNote(d.title, d.content.s, d.category, d.is_favorite,
                AttachedFromDict(d), d.created)
        EXCEPT !.modified = d.modified]

----------------------------------------------------------------------------
(* models/card_entry.py *)

CardEntry(title, card_type, card_number, cardholder_name, expiry_month, expiry_year, cvv, notes, category, is_favorite, attached_files, now) ==
    [title |-> title, card_type |-> card_type, card_number |-> card_number,
     cardholder_name |-> cardholder_name, expiry_month |-> expiry_month,
     expiry_year |-> expiry_year, cvv |-> cvv, notes |-> notes,
     category |-> category, is_favorite |-> is_favorite,
     attached_files |-> attached_files, created |-> now, modified |-> now,
     type |-> Absent]

CardEntry_to_dict(c) ==
    [title |-> c.title, card_type |-> c.card_type,
     card_number |-> Plain(c.card_number),
     cardholder_name |-> c.cardholder_name,
     expiry_month |-> c.expiry_month, expiry_year |-> c.expiry_year,
     cvv |-> Plain(c.cvv), notes |-> Plain(c.notes),
     category |-> c.category, is_favorite |-> c.is_favorite,
     attached_files |-> AttachedToDict(c),
     created |-> c.created, modified |-> c.modified]

CardEntry_from_dict(d) ==
    [CardEntry(d.title, d.card_type, d.card_number.s, d.cardholder_name,
               d.expiry_month, d.expiry_year, d.cvv.s, d.notes.s,
               d.category, d.is_favorite, AttachedFromDict(d), d.created)
        EXCEPT !.modified = d.modified]

----------------------------------------------------------------------------
(* models/identity_entry.py *)

IdentityEntry(title, first_name, last_name, email, phone, address, city, state, zip_code, country, date_of_birth, social_security_number, driver_license, passport_number, notes, category, is_favorite, attached_files, now) ==
    [title |-> title, first_name |-> first_name, last_name |-> last_name,
     email |-> email, phone |-> phone, address |-> address, city |-> city,
     state |-> state, zip_code |-> zip_code, country |-> country,
     date_of_birth |-> date_of_birth,
     social_security_number |-> social_security_number,
     driver_license |-> driver_license,
     passport_number |-> passport_number, notes |-> notes,
     category |-> category, is_favorite |-> is_favorite,
     attached_files |-> attached_files, created |-> now, modified |-> now,
     type |-> Absent]

IdentityEntry_to_dict(e) ==
    [title |-> e.title, first_name |-> e.first_name,
     last_name |-> e.last_name, email |-> e.email, phone |-> e.phone,
     address |-> e.address, city |-> e.city, state |-> e.state,
     zip_code |-> e.zip_code, country |-> e.country,
     date_of_birth |-> e.date_of_birth,
     social_security_number |-> Plain(e.social_security_number),
     driver_license |-> Plain(e.driver_license),
     passport_number |-> Plain(e.passport_number),
     notes |-> Plain(e.notes), category |-> e.category,
     is_favorite |-> e.is_favorite,
     attached_files |-> AttachedToDict(e),
     created |-> e.created, modified |-> e.modified]

IdentityEntry_from_dict(d) ==
    [IdentityEntry(d.title, d.first_name, d.last_name, d.email, d.phone,
                   d.address, d.city, d.state, d.zip_code, d.country,
                   d.date_of_birth, d.social_security_number.s,
                   d.driver_license.s, d.passport_number.s, d.notes.s,
                   d.category, d.is_favorite, AttachedFromDict(d), d.created)
        EXCEPT !.modified = d.modified]

----------------------------------------------------------------------------
(* Bytes of a .lp file *)

\* b"LUCKEEPASS_BACKUP_V1.0"
LP_HEADER == <<76, 85, 67, 75, 69, 69, 80, 65, 83, 83, 95, 66, 65, 67, 75,
               85, 80, 95, 86, 49, 46, 48>>

\* b"\x00\xFF\x00\xFF"
LP_SEPARATOR == <<0, 255, 0, 255>>

APP_NAME == "LuckeePass"

EmptyDoc ==
    [passwords |-> <<>>, notes |-> <<>>, cards |-> <<>>, identities |-> <<>>,
     files |-> <<>>, version |-> "", app_name |-> "", company |-> "",
     created |-> 0, encryption_salt |-> Absent]

\* The text that follows the raw bytes: "none" (no bytes), "doc" (a JSON
\* object), "list" (JSON, but not an object), "cut" (a proper, non-empty
\* prefix of a JSON text).
NoJson == [t |-> "none", doc |-> EmptyDoc]

JsonDoc(doc) == [t |-> "doc", doc |-> doc]

EmptyBytes == [raw |-> <<>>, json |-> NoJson]

\* the text counts for as many bytes as the shortest text of its category
JsonLen(j) ==
    CASE j.t = "none" -> 0
      [] j.t = "cut" -> 1
      [] OTHER -> 2

BytesLen(b) == Len(b.raw) + JsonLen(b.json)

\* data.startswith(prefix); JSON text never begins with the header
startswith(b, prefix) ==
    /\ Len(b.raw) >= Len(prefix)
    /\ SubSeq(b.raw, 1, Len(prefix)) = prefix

\* data.find(sub): position of the first occurrence, counted from 1;
\* 0 stands for Python's -1.  JSON text holds no 0x00 or 0xFF byte.
find(b, sub) ==
    LET hits == {i \in 1..(Len(b.raw) - Len(sub) + 1) :
                    SubSeq(b.raw, i, i + Len(sub) - 1) = sub}
    IN IF hits = {} THEN 0
       ELSE CHOOSE i \in hits : \A j \in hits : i <= j

\* the first n bytes of b, as a write that stops after n bytes leaves them
Truncate(b, n) ==
    IF n >= BytesLen(b) THEN b
    ELSE IF n <= Len(b.raw) THEN [raw |-> SubSeq(b.raw, 1, n), json |-> NoJson]
    ELSE [raw |-> b.raw, json |-> [t |-> "cut", doc |-> EmptyDoc]]

JsonWhitespace == {9, 10, 13, 32}

----------------------------------------------------------------------------
(* PasswordManager *)

NoEM == [master_password |-> Absent, salt |-> Absent, key |-> NoKey]

NoPM ==
    [master_password |-> Absent, encryption_manager |-> NoEM,
     passwords |-> <<>>, notes |-> <<>>, cards |-> <<>>, identities |-> <<>>,
     files |-> <<>>, categories |-> {}]

\* __init__: vault_salt is the UserManager's salt (Absent for None), and
\* urandom the 16 bytes os.urandom would return in the fallback
PasswordManager(master_password, vault_salt, urandom) ==
    [master_password |-> master_password,
     encryption_manager |->
        IF vault_salt # Absent
        THEN EncryptionManager(master_password, vault_salt)
        ELSE EncryptionManager(master_password, urandom),
     passwords |-> <<>>, notes |-> <<>>, cards |-> <<>>, identities |-> <<>>,
     files |-> <<>>, categories |-> {}]

Collections(p) ==
    [passwords |-> p.passwords, notes |-> p.notes, cards |-> p.cards,
     identities |-> p.identities, files |-> p.files]

NumRecords(p) ==
    Len(p.passwords) + Len(p.notes) + Len(p.cards) + Len(p.identities)
        + Len(p.files)

(* export_data: the five "for ... in data[...]" loops *)

EncryptPassword(em, entry) ==
    [entry EXCEPT !.password = encrypt(em, entry.password),
                  !.notes = encrypt(em, entry.notes)]

EncryptNote(em, note) ==
    [note EXCEPT !.content = encrypt(em, note.content)]

EncryptCard(em, card) ==
    [card EXCEPT !.card_number = encrypt(em, card.card_number),
                 !.cvv = encrypt(em, card.cvv),
                 !.notes = encrypt(em, card.notes)]

EncryptIdentity(em, identity) ==
    [identity EXCEPT
        !.social_security_number = encrypt(em, identity.social_security_number),
        !.driver_license = encrypt(em, identity.driver_license),
        !.passport_number = encrypt(em, identity.passport_number),
        !.notes = encrypt(em, identity.notes)]

EncryptFile(em, file) ==
    [file EXCEPT !.file_data = encrypt(em, file.file_data),
                 !.notes = encrypt(em, file.notes)]

\* the salt written into the envelope
ExportSalt(p) == get_salt(p.encryption_manager)

export_data(p, now) ==
    LET em == p.encryption_manager
        encrypted_data ==
            [passwords |-> [i \in 1..Len(p.passwords) |->
                EncryptPassword(em, PasswordEntry_to_dict(p.passwords[i]))],
             notes |-> [i \in 1..Len(p.notes) |->
                EncryptNote(em, SecureNote_to_dict(p.notes[i]))],
             cards |-> [i \in 1..Len(p.cards) |->
                EncryptCard(em, CardEntry_to_dict(p.cards[i]))],
             identities |-> [i \in 1..Len(p.identities) |->
                EncryptIdentity(em, IdentityEntry_to_dict(p.identities[i]))],
             files |-> [i \in 1..Len(p.files) |->
                EncryptFile(em, FileEntry_to_dict(p.files[i]))],
             version |-> "1.0",
             app_name |-> APP_NAME,
             company |-> "LuckeeSoft",
             created |-> now,
             encryption_salt |-> b64encode(ExportSalt(p))]
    IN [raw |-> LP_HEADER \o LP_SEPARATOR, json |-> JsonDoc(encrypted_data)]

\* is_valid_lp_file, given the bytes read from the path
is_valid_lp_file(b) == startswith(b, LP_HEADER)

\* favorites: one of its five loops over a collection.  The objects with
\* is_favorite are assigned entry.type = type_name where they are stored.
TagFavorites(xs, type_name) ==
    [i \in 1..Len(xs) |->
        IF xs[i].is_favorite THEN [xs[i] EXCEPT !.type = type_name]
        ELSE xs[i]]

\* the objects a loop appends to favs, in the order of the collection
Favorited(xs) ==
    LET idx == {i \in 1..Len(xs) : xs[i].is_favorite}
        nth(k) == CHOOSE i \in idx : Cardinality({j \in idx : j <= i}) = k
    IN [k \in 1..Cardinality(idx) |-> xs[nth(k)]]

\* the engine after the favorites property was read
favorites_assigns(p) ==
    [p EXCEPT !.passwords = TagFavorites(@, "Password"),
              !.notes = TagFavorites(@, "Secure Note"),
              !.cards = TagFavorites(@, "Card"),
              !.identities = TagFavorites(@, "Identity"),
              !.files = TagFavorites(@, "File")]

\* (mutant) the loop over the files runs first
favorites_files_first(p) ==
    LET q == favorites_assigns(p)
    IN Favorited(q.files) \o Favorited(q.passwords) \o Favorited(q.notes)
        \o Favorited(q.cards) \o Favorited(q.identities)

\* the list the favorites property returns: the stored objects themselves
favorites(p) ==
    LET q == favorites_assigns(p)
    IN Favorited(q.passwords) \o Favorited(q.notes) \o Favorited(q.cards)
        \o Favorited(q.identities) \o Favorited(q.files)

----------------------------------------------------------------------------
(* import_data *)

NoError == ""
ErrNotLuckeePass ==
    "Invalid .lp file format. This file was not created by LuckeePass."
ErrCorruptedFile == "Invalid .lp file format. Corrupted file."
ErrTooShort == "Invalid .lp file format. File too short."
ErrEncoding == "Invalid .lp file format. Corrupted data encoding."
ErrJson == "Invalid .lp file format. Corrupted JSON data"
ErrNotObject == "AttributeError"
ErrSalt == "binascii.Error"

FormatErrors ==
    {ErrNotLuckeePass, ErrCorruptedFile, ErrTooShort, ErrEncoding, ErrJson}

\* the raw bytes after the separator (lp_data[json_start:] up to the text)
PayloadRaw(b) ==
    SubSeq(b.raw, find(b, LP_SEPARATOR) + Len(LP_SEPARATOR), Len(b.raw))

\* (mutant) the header is not checked
ImportError_no_header_check(b) ==
    IF find(b, LP_SEPARATOR) = 0 THEN ErrCorruptedFile
    ELSE IF find(b, LP_SEPARATOR) - 1 + Len(LP_SEPARATOR) >= BytesLen(b)
        THEN ErrTooShort
    ELSE IF \E i \in 1..Len(PayloadRaw(b)) : PayloadRaw(b)[i] >= 128
        THEN ErrEncoding
    ELSE IF \/ b.json.t \notin {"doc", "list"}
            \/ \E i \in 1..Len(PayloadRaw(b)) :
                    PayloadRaw(b)[i] \notin JsonWhitespace
        THEN ErrJson
    ELSE IF b.json.t = "list" THEN ErrNotObject
    ELSE IF b.json.doc.app_name # APP_NAME THEN ErrNotLuckeePass
    ELSE NoError

\* lines 314-346: the exception import_data raises before it touches the
\* collections, or NoError
ImportError(b) ==
    IF ~startswith(b, LP_HEADER) THEN ErrNotLuckeePass
    ELSE IF find(b, LP_SEPARATOR) = 0 THEN ErrCorruptedFile
    ELSE IF find(b, LP_SEPARATOR) - 1 + Len(LP_SEPARATOR) >= BytesLen(b)
        THEN ErrTooShort
    ELSE IF \E i \in 1..Len(PayloadRaw(b)) : PayloadRaw(b)[i] >= 128
        THEN ErrEncoding
    ELSE IF \/ b.json.t \notin {"doc", "list"}
            \/ \E i \in 1..Len(PayloadRaw(b)) :
                    PayloadRaw(b)[i] \notin JsonWhitespace
        THEN ErrJson
    ELSE IF b.json.t = "list" THEN ErrNotObject
    ELSE IF b.json.doc.app_name # APP_NAME THEN ErrNotLuckeePass
    ELSE IF /\ b.json.doc.encryption_salt # Absent
            /\ ~IsB64(b.json.doc.encryption_salt)
        THEN ErrSalt
    ELSE NoError

(* get_backup_info, given the bytes read from the path.  Every exception
   is raised again as ValueError("Could not read backup file: ..."). *)

ErrInfoFormat == "Could not read backup file: Invalid .lp file format"
ErrInfoTooShort ==
    "Could not read backup file: Invalid .lp file format. File too short."
ErrInfoEncoding ==
    "Could not read backup file: Invalid .lp file format. Corrupted data encoding."
ErrInfoJson ==
    "Could not read backup file: Invalid .lp file format. Corrupted JSON data"
ErrInfoNotObject == "Could not read backup file: AttributeError"
ErrInfoNotLuckeePass ==
    "Could not read backup file: Invalid .lp file format. This file was not created by LuckeePass."

\* (mutant) the app_name is not compared
BackupInfoError_no_app_name(b) ==
    IF ~startswith(b, LP_HEADER) THEN ErrInfoFormat
    ELSE IF find(b, LP_SEPARATOR) = 0 THEN ErrInfoFormat
    ELSE IF find(b, LP_SEPARATOR) - 1 + Len(LP_SEPARATOR) >= BytesLen(b)
        THEN ErrInfoTooShort
    ELSE IF \E i \in 1..Len(PayloadRaw(b)) : PayloadRaw(b)[i] >= 128
        THEN ErrInfoEncoding
    ELSE IF \/ b.json.t \notin {"doc", "list"}
            \/ \E i \in 1..Len(PayloadRaw(b)) :
                    PayloadRaw(b)[i] \notin JsonWhitespace
        THEN ErrInfoJson
    ELSE IF b.json.t = "list" THEN ErrInfoNotObject
    ELSE NoError

\* lines 256-280: the exception get_backup_info raises, or NoError
BackupInfoError(b) ==
    IF ~startswith(b, LP_HEADER) THEN ErrInfoFormat
    ELSE IF find(b, LP_SEPARATOR) = 0 THEN ErrInfoFormat
    ELSE IF find(b, LP_SEPARATOR) - 1 + Len(LP_SEPARATOR) >= BytesLen(b)
        THEN ErrInfoTooShort
    ELSE IF \E i \in 1..Len(PayloadRaw(b)) : PayloadRaw(b)[i] >= 128
        THEN ErrInfoEncoding
    ELSE IF \/ b.json.t \notin {"doc", "list"}
            \/ \E i \in 1..Len(PayloadRaw(b)) :
                    PayloadRaw(b)[i] \notin JsonWhitespace
        THEN ErrInfoJson
    ELSE IF b.json.t = "list" THEN ErrInfoNotObject
    ELSE IF b.json.doc.app_name # APP_NAME THEN ErrInfoNotLuckeePass
    ELSE NoError

NoInfo ==
    [app_name |-> "", company |-> "", version |-> "", created |-> 0,
     password_count |-> 0, note_count |-> 0, card_count |-> 0,
     identity_count |-> 0, file_count |-> 0]

\* lines 282-292: the dict get_backup_info returns when it does not raise
get_backup_info(b) ==
    LET backup_data == b.json.doc
    IN [app_name |-> backup_data.app_name,
        company |-> backup_data.company,
        version |-> backup_data.version,
        created |-> backup_data.created,
        password_count |-> Len(backup_data.passwords),
        note_count |-> Len(backup_data.notes),
        card_count |-> Len(backup_data.cards),
        identity_count |-> Len(backup_data.identities),
        file_count |-> Len(backup_data.files)]

\* (mutant) the manager of the engine is kept
ImportEM_keep(p, data) == p.encryption_manager

\* lines 341-346: the manager the fields are decrypted with
ImportEM(p, data) ==
    IF data.encryption_salt # Absent
    THEN EncryptionManager(p.master_password, b64decode(data.encryption_salt))
    ELSE p.encryption_manager

(* the bodies of the five try blocks: does the record raise, and the
   object appended when it does not *)

PasswordRaises(em, d) ==
    \/ DecryptRaises(em, d.password)
    \/ DecryptRaises(em, d.notes)
    \/ AttachedRaises(d)

LoadPassword(em, d) ==
    PasswordEntry_from_dict([d EXCEPT !.password = decrypt(em, d.password),
                                      !.notes = decrypt(em, d.notes)])

NoteRaises(em, d) ==
    DecryptRaises(em, d.content) \/ AttachedRaises(d)

LoadNote(em, d) ==
    SecureNote_from_dict([d EXCEPT !.content = decrypt(em, d.content)])

CardRaises(em, d) ==
    \/ DecryptRaises(em, d.card_number)
    \/ DecryptRaises(em, d.cvv)
    \/ DecryptRaises(em, d.notes)
    \/ AttachedRaises(d)

LoadCard(em, d) ==
    CardEntry_from_dict([d EXCEPT !.card_number = decrypt(em, d.card_number),
                                  !.cvv = decrypt(em, d.cvv),
                                  !.notes = decrypt(em, d.notes)])

IdentityRaises(em, d) ==
    \/ DecryptRaises(em, d.social_security_number)
    \/ DecryptRaises(em, d.driver_license)
    \/ DecryptRaises(em, d.passport_number)
    \/ DecryptRaises(em, d.notes)
    \/ AttachedRaises(d)

LoadIdentity(em, d) ==
    IdentityEntry_from_dict(
        [d EXCEPT
            !.social_security_number = decrypt(em, d.social_security_number),
            !.driver_license = decrypt(em, d.driver_license),
            !.passport_number = decrypt(em, d.passport_number),
            !.notes = decrypt(em, d.notes)])

FileRaises(em, d) ==
    \/ DecryptRaises(em, d.file_data)
    \/ DecryptRaises(em, d.notes)
    \/ FileEntry_from_dict_raises(
            [d EXCEPT !.file_data = decrypt(em, d.file_data),
                      !.notes = decrypt(em, d.notes)])

LoadFile(em, d) ==
    FileEntry_from_dict([d EXCEPT !.file_data = decrypt(em, d.file_data),
                                  !.notes = decrypt(em, d.notes)])

(* the five loops "self.xs = []; for d in data.get(...): try: ... append
   ... except: continue" *)

LoadPasswords(em, ds) ==
    LET good == SelectSeq(ds, LAMBDA d : ~PasswordRaises(em, d))
    IN [i \in 1..Len(good) |-> LoadPassword(em, good[i])]

LoadNotes(em, ds) ==
    LET good == SelectSeq(ds, LAMBDA d : ~NoteRaises(em, d))
    IN [i \in 1..Len(good) |-> LoadNote(em, good[i])]

LoadCards(em, ds) ==
    LET good == SelectSeq(ds, LAMBDA d : ~CardRaises(em, d))
    IN [i \in 1..Len(good) |-> LoadCard(em, good[i])]

LoadIdentities(em, ds) ==
    LET good == SelectSeq(ds, LAMBDA d : ~IdentityRaises(em, d))
    IN [i \in 1..Len(good) |-> LoadIdentity(em, good[i])]

LoadFiles(em, ds) ==
    LET good == SelectSeq(ds, LAMBDA d : ~FileRaises(em, d))
    IN [i \in 1..Len(good) |-> LoadFile(em, good[i])]

Categories(xs) == {xs[i].category : i \in 1..Len(xs)}

\* import_data when ImportError(b) = NoError
import_data(p, b) ==
    LET data == b.json.doc
        em == ImportEM(p, data)
        passwords == LoadPasswords(em, data.passwords)
        notes == LoadNotes(em, data.notes)
        cards == LoadCards(em, data.cards)
        identities == LoadIdentities(em, data.identities)
        files == LoadFiles(em, data.files)
    IN [master_password |-> p.master_password,
        encryption_manager |-> em,
        passwords |-> passwords,
        notes |-> notes,
        cards |-> cards,
        identities |-> identities,
        files |-> files,
        categories |-> p.categories \cup Categories(passwords)
                        \cup Categories(notes) \cup Categories(cards)
                        \cup Categories(identities) \cup Categories(files)]

\* the "Warning: Could not decrypt ..." messages import_data prints: one
\* per record whose try block raised
ImportWarnings(p, b) ==
    LET data == b.json.doc
        after == import_data(p, b)
    IN (Len(data.passwords) - Len(after.passwords))
        + (Len(data.notes) - Len(after.notes))
        + (Len(data.cards) - Len(after.cards))
        + (Len(data.identities) - Len(after.identities))
        + (Len(data.files) - Len(after.files))

DocRecords(data) ==
    Len(data.passwords) + Len(data.notes) + Len(data.cards)
        + Len(data.identities) + Len(data.files)

----------------------------------------------------------------------------
(* What the entry dialogs hand to the engine *)

\* file_attachment_widget.add_files: one FileEntry per chosen file
Attachment(now) ==
    FileEntry("scan.pdf", "d1", "scan.pdf", "pdf", 2, "Files", "", FALSE, now)

NewPasswords(now) ==
    {PasswordEntry("Example", "u", "p@ss", "https://example", "pin 1234",
                   "Work", TRUE, <<Attachment(now)>>, now)}

NewNotes(now) ==
    {SecureNote("Wifi", "key 42", "General", TRUE, <<>>, now)}

NewCards(now) ==
    {CardEntry("Visa", "Visa", "4111", "A USER", "01", "30", "123", "",
               "Cards", FALSE, <<>>, now)}

NewIdentities(now) ==
    {IdentityEntry("Me", "A", "User", "a@x", "", "", "", "", "", "", "",
                   "078-05", "D123", "P456", "", "Identity", FALSE,
                   <<>>, now)}

NewFiles(now) ==
    {FileEntry("Key", "d2", "key.bin", "bin", 2, "Files", "backup key",
               TRUE, now)}

----------------------------------------------------------------------------
(* Files on disk and the record of the last operation *)

NoFile == [exists |-> FALSE, bytes |-> EmptyBytes]

File(b) == [exists |-> TRUE, bytes |-> b]

NoHash == [algo |-> "none", pw |-> ""]

NoUM == [alive |-> FALSE, hashed_master_password |-> NoHash,
         vault_salt |-> Absent]

NoTamper == [kind |-> "", idx |-> 0, field |-> ""]

\* no call of generate_password
NoGen ==
    [length |-> 0, use_uppercase |-> FALSE, use_digits |-> FALSE,
     use_symbols |-> FALSE, exclude_similar |-> FALSE, raised |-> FALSE,
     password |-> <<>>]

NoCollections == Collections(NoPM)

\* op: the operation just performed ("" for one nothing is recorded
\* about); error: the exception it raised to its caller; pw: the password
\* typed; pre: the engine before it; prefile: the vault file before it;
\* warnings: the warnings it printed; input: the bytes it was given;
\* policy: the button pressed in the import dialog; favs: the list
\* favorites returned; info: the dict get_backup_info returned; gen: the
\* arguments and the outcome of generate_password; result: what verify_master_password returned;
\* failed: a write to a credential file failed during the operation;
\* overwrote: the save replaced a vault file from which the session's
\* load_data had loaded nothing;
\* presalt, preum: the salt file and the UserManager before the operation.
\* origin/opw/tamper/malform tell how the bytes in backup were made.
\* saved_ok and saved persist across operations: the vault file is the
\* envelope written by the last successful save_data, and the collections
\* that save wrote.
NoHist ==
    [op |-> "", error |-> NoError, warnings |-> 0, pw |-> "", policy |-> "",
     origin |-> NoCollections, opw |-> "", tamper |-> NoTamper,
     malform |-> "", input |-> EmptyBytes, pre |-> NoPM, favs |-> <<>>,
     info |-> NoInfo, gen |-> NoGen, result |-> FALSE, failed |-> FALSE, presalt |-> Absent, preum |-> NoUM,
     prefile |-> NoFile, saved |-> NoCollections, saved_ok |-> FALSE,
     overwrote |-> FALSE]

----------------------------------------------------------------------------
(* The codec on bounded inputs: export, damage, import *)

SeqsUpTo(S, n) == UNION {[1..k -> S] : k \in 0..n}

CodecVaults ==
    {v \in [passwords : SeqsUpTo(NewPasswords(0), MaxCodecRecords),
            notes : SeqsUpTo(NewNotes(1), MaxCodecRecords),
            cards : SeqsUpTo(NewCards(0), MaxCodecRecords),
            identities : SeqsUpTo(NewIdentities(1), MaxCodecRecords),
            files : SeqsUpTo(NewFiles(0), MaxCodecRecords)] :
        Len(v.passwords) + Len(v.notes) + Len(v.cards) + Len(v.identities)
            + Len(v.files) <= MaxCodecRecords}

\* an engine holding vault v: the records were added at time 2
CodecEngine(p, salt, v) ==
    [PasswordManager(p, salt, salt) EXCEPT
        !.passwords = [i \in 1..Len(v.passwords) |->
                        [v.passwords[i] EXCEPT !.modified = 2]],
        !.notes = v.notes,
        !.cards = [i \in 1..Len(v.cards) |->
                        [v.cards[i] EXCEPT !.modified = 2]],
        !.identities = v.identities,
        !.files = v.files,
        !.categories = Categories(v.passwords) \cup Categories(v.notes)
            \cup Categories(v.cards) \cup Categories(v.identities)
            \cup Categories(v.files)]

CodecInit ==
    /\ master_file = NoHash
    /\ salt_file = Absent
    /\ data_file = NoFile
    /\ um = NoUM
    /\ \E p \in MasterPasswords, salt \in Salts, v \in CodecVaults :
            pm = CodecEngine(p, salt, v)
    /\ phase = "codec"
    /\ clock = 2
    /\ backup = NoFile
    /\ hist = NoHist

CodecExport ==
    /\ phase = "codec"
    /\ ~backup.exists
    /\ backup' = File(export_data(pm, clock))
    /\ hist' = [NoHist EXCEPT !.op = "export",
                              !.origin = Collections(pm),
                              !.opw = pm.master_password]
    /\ UNCHANGED <<master_file, salt_file, data_file, um, pm, phase, clock>>

\* the names of the fields of a serialised record that hold Fernet tokens
TokenFields(kind) ==
    CASE kind = "passwords" -> {"password", "notes"}
      [] kind = "notes" -> {"content"}
      [] kind = "cards" -> {"card_number", "cvv", "notes"}
      [] kind = "identities" -> {"social_security_number", "driver_license",
                                 "passport_number", "notes"}
      [] kind = "files" -> {"file_data", "notes"}

Kinds == {"passwords", "notes", "cards", "identities", "files"}

\* one byte of one token is flipped
Corrupt(b, kind, idx, field) ==
    [b EXCEPT !.json.doc[kind][idx][field].intact = FALSE]

CodecTamper ==
    /\ phase = "codec"
    /\ backup.exists
    /\ hist.op = "export"
    /\ \E kind \in Kinds :
         \E idx \in 1..Len(backup.bytes.json.doc[kind]) :
           \E field \in TokenFields(kind) :
             /\ backup' = File(Corrupt(backup.bytes, kind, idx, field))
             /\ hist' = [hist EXCEPT
                    !.op = "tamper",
                    !.tamper = [kind |-> kind, idx |-> idx, field |-> field]]
    /\ UNCHANGED <<master_file, salt_file, data_file, um, pm, phase, clock>>

\* byte sequences that are not envelopes, each built from an envelope b
\* and labelled with what was done to it
Malformed(b) ==
    {[label |-> "no_header", bytes |-> EmptyBytes],
     [label |-> "no_header", bytes |-> [b EXCEPT !.raw = Tail(b.raw)]],
     [label |-> "no_header", bytes |-> [b EXCEPT !.raw = <<120>> \o b.raw]],
     [label |-> "no_header",
      bytes |-> [b EXCEPT !.raw = [b.raw EXCEPT ![Len(LP_HEADER)] = 49]]],
     [label |-> "no_header", bytes |-> Truncate(b, 10)],
     [label |-> "no_header", bytes |-> [b EXCEPT !.raw = <<>>]],
     [label |-> "no_separator", bytes |-> Truncate(b, Len(LP_HEADER))],
     [label |-> "no_separator", bytes |-> Truncate(b, Len(LP_HEADER) + 3)],
     [label |-> "no_separator", bytes |-> [b EXCEPT !.raw = LP_HEADER]],
     [label |-> "nothing_after_separator",
      bytes |-> Truncate(b, Len(LP_HEADER) + Len(LP_SEPARATOR))],
     [label |-> "bad_json",
      bytes |-> Truncate(b, Len(LP_HEADER) + Len(LP_SEPARATOR) + 1)],
     [label |-> "bad_json", bytes |-> [b EXCEPT !.raw = b.raw \o <<120>>]],
     [label |-> "bad_json", bytes |-> [b EXCEPT !.raw = b.raw \o <<0>>]],
     [label |-> "bad_json", bytes |-> [b EXCEPT !.raw = b.raw \o <<255>>]],
     [label |-> "foreign_app",
      bytes |-> [b EXCEPT !.json.doc.app_name = "OtherApp"]],
     [label |-> "not_object",
      bytes |-> [b EXCEPT !.json = [t |-> "list", doc |-> EmptyDoc]]],
     [label |-> "padded", bytes |-> [b EXCEPT !.raw = b.raw \o <<10, 32>>]]}

CodecMalform ==
    /\ phase = "codec"
    /\ backup.exists
    /\ hist.op = "export"
    /\ \E m \in Malformed(backup.bytes) :
        /\ backup' = File(m.bytes)
        /\ hist' = [hist EXCEPT !.op = "malform", !.malform = m.label]
    /\ UNCHANGED <<master_file, salt_file, data_file, um, pm, phase, clock>>

\* a fresh engine, opened with password p on an installation whose vault
\* salt is salt, imports the file
CodecImport ==
    /\ phase = "codec"
    /\ backup.exists
    /\ \E p \in MasterPasswords, salt \in Salts :
        LET fresh == PasswordManager(p, salt, salt)
            err == ImportError(backup.bytes)
        IN /\ pm' = IF err = NoError THEN import_data(fresh, backup.bytes)
                    ELSE fresh
           /\ hist' = [hist EXCEPT
                !.op = "import",
                !.error = err,
                !.pw = p,
                !.warnings = IF err = NoError
                             THEN ImportWarnings(fresh, backup.bytes) ELSE 0,
                !.input = backup.bytes,
                !.pre = fresh]
    /\ phase' = "codec_done"
    /\ UNCHANGED <<master_file, salt_file, data_file, um, clock, backup>>

\* where a write that fails partway may stop: before the first byte,
\* after the header, inside the JSON text
CutPoints ==
    {0, Len(LP_HEADER), Len(LP_HEADER) + Len(LP_SEPARATOR) + 1}

ErrSave == "Failed to save data"

\* save_data: open(self.data_file, 'wb') truncates the file and f.write
\* replaces its bytes.  The outcomes are the complete write, a failure of
\* open (file untouched) and a write that stops at a cut point.
SaveOutcomes(p, file, now) ==
    LET lp_data == export_data(p, now)
    IN {[file |-> File(lp_data), error |-> NoError]}
       \cup {[file |-> file, error |-> ErrSave]}
       \cup {[file |-> File(Truncate(lp_data, n)), error |-> ErrSave] :
                n \in CutPoints}

\* the "Replace" button: the collections and categories are cleared
Cleared(p) ==
    [p EXCEPT !.passwords = <<>>, !.notes = <<>>, !.cards = <<>>,
              !.identities = <<>>, !.files = <<>>, !.categories = {}]

\* MainWindow.import_data in the session that wrote the file: the file
\* passes is_valid_lp_file, the dialog offers "Replace" and "Merge" when
\* the vault holds records, the engine imports, and the vault is saved
CodecImportInto ==
    /\ phase = "codec"
    /\ backup.exists
    /\ is_valid_lp_file(backup.bytes)
    /\ \E policy \in IF NumRecords(pm) > 0 THEN {"replace", "merge"}
                     ELSE {"none"} :
        LET lp_data == backup.bytes
            before == IF policy = "replace" THEN Cleared(pm) ELSE pm
            err == ImportError(lp_data)
        IN /\ pm' = IF err = NoError THEN import_data(before, lp_data)
                    ELSE before
           /\ hist' = [hist EXCEPT !.op = "import_into", !.error = err,
                                   !.policy = policy, !.input = lp_data,
                                   !.pre = pm]
           /\ IF err = NoError
              THEN \E o \in SaveOutcomes(import_data(before, lp_data),
                                         data_file, clock) :
                        data_file' = o.file
              ELSE data_file' = data_file
    /\ phase' = "codec_done"
    /\ UNCHANGED <<master_file, salt_file, um, clock, backup>>

\* get_backup_info is called on the file, next to an engine that is open
CodecPeek ==
    /\ phase = "codec"
    /\ backup.exists
    /\ LET err == BackupInfoError(backup.bytes)
       IN hist' = [hist EXCEPT
                !.op = "peek",
                !.error = err,
                !.info = IF err = NoError THEN get_backup_info(backup.bytes)
                         ELSE NoInfo,
                !.input = backup.bytes,
                !.pre = pm]
    /\ phase' = "codec_done"
    /\ UNCHANGED <<master_file, salt_file, data_file, um, pm, clock, backup>>

CodecNext ==
    \/ CodecExport \/ CodecTamper \/ CodecMalform \/ CodecImport
    \/ CodecImportInto \/ CodecPeek

SpecCodec == CodecInit /\ [][CodecNext]_vars

----------------------------------------------------------------------------
(* Properties of the codec *)

ImportedExport ==
    /\ hist.op = "import"
    /\ hist.malform = ""

\* C1: importing what export_data produced, undamaged and with the master
\* password it was exported under, yields the five collections that were
\* exported, field for field and in the same order.
C1_RoundTrip ==
    (ImportedExport /\ hist.tamper = NoTamper /\ hist.pw = hist.opw)
        => /\ hist.error = NoError
           /\ Collections(pm) = hist.origin

C1_Witness ==
    /\ ImportedExport /\ hist.tamper = NoTamper /\ hist.pw = hist.opw
    /\ NumRecords(pm) = MaxCodecRecords
    /\ \E i \in 1..Len(pm.passwords) : Len(pm.passwords[i].attached_files) > 0
    /\ Len(pm.files) > 0
    /\ hist.pre.encryption_manager.salt # pm.encryption_manager.salt

\* C2: importing an envelope with a master password other than the one it
\* was exported under returns normally, loads no record into any
\* collection, warns once per record of the envelope and never yields a
\* record that was not exported.
C2_WrongPassword ==
    (ImportedExport /\ hist.pw # hist.opw)
        => /\ hist.error = NoError
           /\ NumRecords(pm) = 0
           /\ hist.warnings = DocRecords(hist.input.json.doc)
           /\ \A kind \in Kinds :
                Range(Collections(pm)[kind]) \subseteq Range(hist.origin[kind])

C2_Witness ==
    /\ ImportedExport /\ hist.pw # hist.opw
    /\ DocRecords(hist.input.json.doc) = MaxCodecRecords
    /\ hist.warnings = MaxCodecRecords
    /\ hist.tamper = NoTamper

\* C3: when exactly one token of one record of an envelope is corrupted,
\* import skips exactly that record and loads every other record of every
\* collection unchanged and in its original order.
C3_TamperIsolation ==
    (ImportedExport /\ hist.tamper # NoTamper /\ hist.pw = hist.opw)
        => /\ hist.error = NoError
           /\ hist.warnings = 1
           /\ Collections(pm) =
                [hist.origin EXCEPT
                    ![hist.tamper.kind] = RemoveAt(@, hist.tamper.idx)]

C3_Witness ==
    /\ ImportedExport /\ hist.tamper # NoTamper /\ hist.pw = hist.opw
    /\ hist.tamper.idx = 2
    /\ Len(hist.origin[hist.tamper.kind]) = 3
    /\ Len(Collections(pm)[hist.tamper.kind]) = 2

\* C21: get_backup_info raises on exactly the byte sequences on which
\* import_data fails its header, separator, length, encoding, JSON or
\* app_name check; it leaves the engine as it was; and when it returns,
\* its five counts are the lengths of the five arrays of the envelope,
\* decryptable or not.
C21_PeekMetadata ==
    hist.op = "peek" =>
        LET b == hist.input
        IN /\ (hist.error # NoError) <=>
                (ImportError(b) \in FormatErrors \cup {ErrNotObject})
           /\ pm = hist.pre
           /\ hist.error = NoError =>
                /\ hist.info.password_count = Len(b.json.doc.passwords)
                /\ hist.info.note_count = Len(b.json.doc.notes)
                /\ hist.info.card_count = Len(b.json.doc.cards)
                /\ hist.info.identity_count = Len(b.json.doc.identities)
                /\ hist.info.file_count = Len(b.json.doc.files)
                /\ hist.info.app_name = APP_NAME

\* the counts of an envelope one of whose records no longer decrypts
C21_Witness ==
    /\ hist.op = "peek"
    /\ hist.error = NoError
    /\ hist.tamper # NoTamper
    /\ hist.info.password_count + hist.info.note_count
        + hist.info.card_count + hist.info.identity_count
        + hist.info.file_count = MaxCodecRecords
    /\ \E p \in MasterPasswords :
        ImportWarnings(PasswordManager(p, "s1", "s1"), hist.input) > 0

\* C29: after an import that failed with a format error, the five
\* collections, the category set, the session's key and salt and the files
\* are what they were before the import.
C29_FailedImportFrame ==
    (hist.op \in {"import", "import_into"} /\ hist.error \in FormatErrors) =>
        /\ Collections(pm) = Collections(hist.pre)
        /\ pm.categories = hist.pre.categories
        /\ pm.encryption_manager = hist.pre.encryption_manager
        /\ salt_file = Absent
        /\ data_file = NoFile

\* the serialised records of an envelope together with the File records
\* they carry
IsToken(t) == t.kind = "fernet"

AttachedEncrypted(d) ==
    \A j \in 1..Len(d.attached_files) :
        /\ IsToken(d.attached_files[j].file_data)
        /\ IsToken(d.attached_files[j].notes)

\* C4: in every envelope export_data produces, every sensitive field of
\* every record is a Fernet token, the file_data of attached File records
\* included.
C4_CiphertextAtRest ==
    (hist.op = "export")
        => LET data == backup.bytes.json.doc
           IN /\ \A kind \in Kinds : \A i \in 1..Len(data[kind]) :
                    \A f \in TokenFields(kind) : IsToken(data[kind][i][f])
              /\ \A kind \in Kinds \ {"files"} : \A i \in 1..Len(data[kind]) :
                    AttachedEncrypted(data[kind][i])

\* C10: bytes that do not start with the header are rejected by
\* is_valid_lp_file and by import_data, and import_data also rejects a
\* missing separator, an empty payload, invalid JSON and a foreign
\* app_name; in each case with a format error raised before any key is
\* derived or any collection touched.
C10_FormatRejection ==
    (hist.op = "import" /\ hist.malform \in
        {"no_header", "no_separator", "nothing_after_separator", "bad_json",
         "foreign_app"})
        => /\ hist.error \in FormatErrors
           /\ pm = hist.pre
           /\ (hist.malform = "no_header" => ~is_valid_lp_file(hist.input))

C10_Witness ==
    /\ hist.op = "import"
    /\ hist.malform = "no_header"
    /\ hist.error = ErrNotLuckeePass
    /\ Len(hist.input.raw) > Len(LP_HEADER)
    /\ hist.input.json.t = "doc"
    /\ DocRecords(hist.input.json.doc) > 0

----------------------------------------------------------------------------
(* UserManager *)

\* bcrypt.hashpw(password, bcrypt.gensalt()) and bcrypt.checkpw
hashpw(password) == [algo |-> "bcrypt", pw |-> password]

checkpw(password, hashed) == hashed.algo = "bcrypt" /\ hashed.pw = password

\* __init__: both fields are read from the files
UserManager(mfile, sfile) ==
    [alive |-> TRUE, hashed_master_password |-> mfile, vault_salt |-> sfile]

verify_master_password(u, master_password) ==
    IF u.hashed_master_password = NoHash THEN FALSE
    ELSE checkpw(master_password, u.hashed_master_password)

is_master_password_set(u) == u.hashed_master_password # NoHash

get_vault_salt(u) == u.vault_salt

\* (mutant) set_master_password writes a new salt on every call
SetMasterPasswordOutcomes_new_salt(u, master_password, mfile, sfile, urandom) ==
    {[master_file |-> hashpw(master_password), salt_file |-> urandom,
      um |-> [u EXCEPT !.vault_salt = urandom], failed |-> FALSE,
      error |-> NoError]}

\* set_master_password: the new contents of the two files and of the
\* object.  The hash goes to the file only (the object's field is not
\* assigned); a salt is generated (urandom) and stored only when the
\* object holds none.
set_master_password(u, master_password, sfile, urandom) ==
    [master_file |-> hashpw(master_password),
     salt_file |-> IF u.vault_salt = Absent THEN urandom ELSE sfile,
     um |-> [u EXCEPT !.vault_salt = IF @ = Absent THEN urandom ELSE @]]

\* a credential file that was opened for writing and received no byte
EmptyHash == [algo |-> "empty", pw |-> ""]

EmptySalt == ""

\* _save_master_password_hash: the file after the call and whether the
\* write succeeded.  open(..., 'wb') may fail (file untouched) or the
\* write may fail after open truncated the file; the exception is
\* printed and not raised.
HashWriteOutcomes(mfile, hashed) ==
    {[file |-> hashed, ok |-> TRUE], [file |-> mfile, ok |-> FALSE],
     [file |-> EmptyHash, ok |-> FALSE]}

\* _save_vault_salt, likewise; self.vault_salt is assigned only after a
\* successful write
SaltWriteOutcomes(sfile, salt) ==
    {[file |-> salt, ok |-> TRUE], [file |-> sfile, ok |-> FALSE],
     [file |-> EmptySalt, ok |-> FALSE]}

\* set_master_password with every outcome of its two writes: the files
\* and the object after it, whether a write failed, and the exception it
\* raises to its caller
SetMasterPasswordOutcomes(u, master_password, mfile, sfile, urandom) ==
    {[master_file |-> h.file,
      salt_file |-> IF u.vault_salt = Absent THEN s.file ELSE sfile,
      um |-> [u EXCEPT !.vault_salt = IF @ = Absent /\ s.ok THEN urandom
                                      ELSE @],
      failed |-> ~h.ok \/ (u.vault_salt = Absent /\ ~s.ok),
      error |-> NoError] :
        h \in HashWriteOutcomes(mfile, hashpw(master_password)),
        s \in SaltWriteOutcomes(sfile, urandom)}

ErrDelete == "os.remove failed"

\* delete_user_data: the three files after it and the exception it
\* raises; an os.remove that fails stops the deletion where it is.  The
\* fields of the object are not touched.
DeleteOutcomes(mfile, sfile, dfile) ==
    {[master_file |-> NoHash, salt_file |-> Absent, data_file |-> NoFile,
      error |-> NoError],
     [master_file |-> mfile, salt_file |-> sfile, data_file |-> dfile,
      error |-> ErrDelete],
     [master_file |-> NoHash, salt_file |-> sfile, data_file |-> dfile,
      error |-> ErrDelete],
     [master_file |-> NoHash, salt_file |-> Absent, data_file |-> dfile,
      error |-> ErrDelete]}

----------------------------------------------------------------------------
(* save_data and load_data *)

\* the exception import_data raises inside load_data, or NoError
LoadError(file) ==
    IF ~file.exists \/ BytesLen(file.bytes) = 0 THEN NoError
    ELSE ImportError(file.bytes)

\* (mutant) the bytes of the file are not imported
load_data_no_import(p, file) == p

\* load_data: every exception is caught; the except branches reset four
\* of the five collections and the categories
load_data(p, file) ==
    IF ~file.exists THEN p
    ELSE IF BytesLen(file.bytes) = 0 THEN p
    ELSE IF ImportError(file.bytes) # NoError
        THEN [p EXCEPT !.passwords = <<>>, !.notes = <<>>, !.cards = <<>>,
                       !.identities = <<>>, !.categories = {}]
    ELSE import_data(p, file.bytes)

\* (mutant) load_data lets the exception of import_data through
LoadRaised_surfaces(p, file) == LoadError(file)

\* what load_data raises to its caller
LoadRaised(p, file) == NoError

\* load_data reads nothing out of the file: it is empty, or import_data
\* raises on it
Unreadable(file) ==
    /\ file.exists
    /\ \/ BytesLen(file.bytes) = 0
       \/ ImportError(file.bytes) # NoError

----------------------------------------------------------------------------
(* The application *)

Init ==
    /\ master_file = NoHash
    /\ salt_file = Absent
    /\ data_file = NoFile
    /\ um = NoUM
    /\ pm = NoPM
    /\ phase = "off"
    /\ clock = 0
    /\ backup = NoFile
    /\ hist = NoHist

\* the fields of hist that outlive an operation
Keep ==
    [NoHist EXCEPT !.saved = hist.saved, !.saved_ok = hist.saved_ok]

\* hist after a save_data with outcome o of the engine p
Saved(h, p, o) ==
    LET ok == IF o.error = NoError THEN TRUE
              ELSE IF o.file = data_file THEN h.saved_ok ELSE FALSE
    IN [h EXCEPT !.error = o.error,
                 !.prefile = IF o.error = NoError THEN NoFile ELSE data_file,
                 !.saved_ok = ok,
                 !.saved = IF o.error = NoError THEN Collections(p)
                           ELSE IF ok THEN @ ELSE NoCollections]

\* the salts found in the files
KnownSalts ==
    {salt_file}
    \cup (IF backup.exists /\ backup.bytes.json.t = "doc"
           /\ IsB64(backup.bytes.json.doc.encryption_salt)
          THEN {b64decode(backup.bytes.json.doc.encryption_salt)} ELSE {})
    \cup (IF data_file.exists /\ data_file.bytes.json.t = "doc"
           /\ IsB64(data_file.bytes.json.doc.encryption_salt)
          THEN {b64decode(data_file.bytes.json.doc.encryption_salt)} ELSE {})

\* the bytes os.urandom(16) returns where u needs a new salt: random
\* bytes, taken to differ from every salt already in a file while the
\* model has such a salt left
Urandom(u) ==
    IF u.vault_salt # Absent THEN {Absent}
    ELSE IF Salts \ KnownSalts = {} THEN Salts
    ELSE {CHOOSE x \in Salts \ KnownSalts : TRUE}

\* MainWindow.__init__: a new process builds its UserManager
Start ==
    /\ phase = "off"
    /\ um' = UserManager(master_file, salt_file)
    /\ pm' = NoPM
    /\ phase' = "startup"
    /\ hist' = Keep
    /\ UNCHANGED <<master_file, salt_file, data_file, clock, backup>>

\* StartupChoiceDialog 'new', WelcomeDialog.handle_setup and
\* handle_new_vault_creation
CreateVault ==
    /\ phase = "startup"
    /\ ~is_master_password_set(um)
    /\ \E p \in MasterPasswords, urandom \in Urandom(um) :
        LET set == set_master_password(um, p, salt_file, urandom)
            engine == PasswordManager(p, get_vault_salt(set.um), urandom)
        IN /\ master_file' = set.master_file
           /\ salt_file' = set.salt_file
           /\ um' = set.um
           /\ pm' = load_data(engine, data_file)
           /\ hist' = [Keep EXCEPT !.op = "create", !.pw = p,
                                   !.error = LoadRaised(engine, data_file)]
    /\ phase' = "main"
    /\ UNCHANGED <<data_file, clock, backup>>

\* (mutant) the dialog accepts whatever was typed
Login_no_verify ==
    /\ phase = "startup"
    /\ is_master_password_set(um)
    /\ \E p \in MasterPasswords, urandom \in Urandom(um) :
        LET engine == PasswordManager(p, get_vault_salt(um), urandom)
        IN /\ pm' = load_data(engine, data_file)
           /\ phase' = "main"
           /\ hist' = [Keep EXCEPT !.op = "login", !.pw = p,
                           !.error = LoadRaised(engine, data_file)]
    /\ UNCHANGED <<master_file, salt_file, data_file, um, clock, backup>>

\* LoginDialog.try_login and the rest of show_login_dialog
Login ==
    /\ phase = "startup"
    /\ is_master_password_set(um)
    /\ \E p \in MasterPasswords, urandom \in Urandom(um) :
        LET engine == PasswordManager(p, get_vault_salt(um), urandom)
        IN IF verify_master_password(um, p)
           THEN /\ pm' = load_data(engine, data_file)
                /\ phase' = "main"
                /\ hist' = [Keep EXCEPT !.op = "login", !.pw = p,
                                !.error = LoadRaised(engine, data_file)]
           ELSE /\ hist' = [Keep EXCEPT !.op = "login", !.pw = p]
                /\ UNCHANGED <<pm, phase>>
    /\ UNCHANGED <<master_file, salt_file, data_file, um, clock, backup>>

\* the exception verify_and_restore catches before it sets the password
RestoreError(b) ==
    IF ~is_valid_lp_file(b)
        THEN "The selected file is not a valid LuckeePass data file."
    ELSE IF BackupInfoError(b) # NoError THEN BackupInfoError(b)
    ELSE ImportError(b)

\* StartupChoiceDialog 'restore', WelcomeBackDialog.verify_and_restore and
\* handle_vault_restoration.  When save_data raises, the password is
\* already set and the dialog stays open (phase "restore"): it can only
\* be tried again or cancelled.
Restore ==
    /\ \/ phase = "startup" /\ ~is_master_password_set(um)
       \/ phase = "restore"
    /\ backup.exists
    /\ \E p \in MasterPasswords, urandom \in Urandom(um) :
        LET lp_data == backup.bytes
            set == set_master_password(um, p, salt_file, urandom)
            engine == PasswordManager(p, get_vault_salt(set.um), urandom)
        IN IF RestoreError(lp_data) # NoError
           THEN /\ hist' = [Keep EXCEPT !.op = "restore", !.pw = p,
                                !.prefile = data_file,
                                !.error = RestoreError(lp_data)]
                /\ UNCHANGED <<master_file, salt_file, data_file, um, pm,
                               phase>>
           ELSE \E o \in SaveOutcomes(import_data(engine, lp_data),
                                      data_file, clock) :
                /\ master_file' = set.master_file
                /\ salt_file' = set.salt_file
                /\ um' = set.um
                /\ pm' = IF o.error = NoError
                         THEN import_data(engine, lp_data) ELSE NoPM
                /\ data_file' = o.file
                /\ phase' = IF o.error = NoError THEN "main" ELSE "restore"
                /\ hist' = [Saved(Keep, import_data(engine, lp_data), o)
                                EXCEPT !.op = "restore", !.pw = p,
                                       !.prefile = data_file]
    /\ UNCHANGED <<clock, backup>>

\* sys.exit() from a start-up dialog
QuitStartup ==
    /\ phase \in {"startup", "restore"}
    /\ phase' = "off"
    /\ um' = NoUM
    /\ pm' = NoPM
    /\ hist' = Keep
    /\ UNCHANGED <<master_file, salt_file, data_file, clock, backup>>

----------------------------------------------------------------------------
(* The engine's mutations.  The entry is the object a dialog built at the
   current clock reading; the clock advances with every add and update,
   MaxClock of them at most.  The password and note dialogs build a new
   object when they edit; the card, identity and file dialogs assign to
   the fields of the object they were given, whose created stays. *)

\* the session has just loaded no record from a vault file that exists and
\* is unreadable, or holds records none of which decrypted
FruitlessLoad ==
    /\ hist.op = "login"
    /\ phase = "main"
    /\ NumRecords(pm) = 0
    /\ data_file.exists
    /\ \/ Unreadable(data_file)
       \/ DocRecords(data_file.bytes.json.doc) > 0

\* (mutant) add_password writes the vault file
AddPassword_autosave ==
    /\ phase = "main"
    /\ clock < MaxClock
    /\ \E entry \in NewPasswords(clock) :
        pm' = [pm EXCEPT
                !.passwords = Append(@, [entry EXCEPT !.modified = clock]),
                !.categories = @ \cup {entry.category}]
    /\ data_file' = File(export_data(pm', clock))
    /\ hist' = Keep
    /\ clock' = clock + 1
    /\ UNCHANGED <<master_file, salt_file, um, phase, backup>>

\* add_password
AddPassword ==
    /\ phase = "main"
    /\ clock < MaxClock
    /\ \E entry \in NewPasswords(clock) :
        pm' = [pm EXCEPT
                !.passwords = Append(@, [entry EXCEPT !.modified = clock]),
                !.categories = @ \cup {entry.category}]
    /\ hist' = Keep
    /\ clock' = clock + 1
    /\ UNCHANGED <<master_file, salt_file, data_file, um, phase, backup>>

\* update_password
UpdatePassword ==
    /\ phase = "main"
    /\ clock < MaxClock
    /\ \E index \in 1..Len(pm.passwords), entry \in NewPasswords(clock) :
        pm' = [pm EXCEPT
                !.passwords = ReplaceAt(@, index,
                                [entry EXCEPT !.modified = clock]),
                !.categories = @ \cup {entry.category}]
    /\ hist' = Keep
    /\ clock' = clock + 1
    /\ UNCHANGED <<master_file, salt_file, data_file, um, phase, backup>>

\* delete_password
DeletePassword ==
    /\ phase = "main"
    /\ \E index \in 1..Len(pm.passwords) :
        pm' = [pm EXCEPT !.passwords = RemoveAt(@, index)]
    /\ hist' = Keep
    /\ UNCHANGED <<master_file, salt_file, data_file, um, phase, clock,
                   backup>>

\* add_note
AddNote ==
    /\ phase = "main"
    /\ clock < MaxClock
    /\ \E entry \in NewNotes(clock) :
        pm' = [pm EXCEPT
                !.notes = Append(@, [entry EXCEPT !.modified = clock]),
                !.categories = @ \cup {entry.category}]
    /\ hist' = Keep
    /\ clock' = clock + 1
    /\ UNCHANGED <<master_file, salt_file, data_file, um, phase, backup>>

\* update_note
UpdateNote ==
    /\ phase = "main"
    /\ clock < MaxClock
    /\ \E index \in 1..Len(pm.notes), entry \in NewNotes(clock) :
        pm' = [pm EXCEPT
                !.notes = ReplaceAt(@, index,
                                [entry EXCEPT !.modified = clock]),
                !.categories = @ \cup {entry.category}]
    /\ hist' = Keep
    /\ clock' = clock + 1
    /\ UNCHANGED <<master_file, salt_file, data_file, um, phase, backup>>

\* delete_note
DeleteNote ==
    /\ phase = "main"
    /\ \E index \in 1..Len(pm.notes) :
        pm' = [pm EXCEPT !.notes = RemoveAt(@, index)]
    /\ hist' = Keep
    /\ UNCHANGED <<master_file, salt_file, data_file, um, phase, clock,
                   backup>>

\* add_card
AddCard ==
    /\ phase = "main"
    /\ clock < MaxClock
    /\ \E entry \in NewCards(clock) :
        pm' = [pm EXCEPT
                !.cards = Append(@, [entry EXCEPT !.modified = clock]),
                !.categories = @ \cup {entry.category}]
    /\ hist' = Keep
    /\ clock' = clock + 1
    /\ UNCHANGED <<master_file, salt_file, data_file, um, phase, backup>>

\* (mutant) update_card leaves the modification time alone
UpdateCard_no_stamp ==
    /\ phase = "main"
    /\ clock < MaxClock
    /\ \E index \in 1..Len(pm.cards), entry \in NewCards(clock) :
        pm' = [pm EXCEPT
                !.cards = ReplaceAt(@, index,
                                [entry EXCEPT !.created = pm.cards[index].created,
                                              !.type = pm.cards[index].type,
                                              !.modified = pm.cards[index].modified]),
                !.categories = @ \cup {entry.category}]
    /\ hist' = Keep
    /\ clock' = clock + 1
    /\ UNCHANGED <<master_file, salt_file, data_file, um, phase, backup>>

\* update_card
UpdateCard ==
    /\ phase = "main"
    /\ clock < MaxClock
    /\ \E index \in 1..Len(pm.cards), entry \in NewCards(clock) :
        pm' = [pm EXCEPT
                !.cards = ReplaceAt(@, index,
                                [entry EXCEPT !.created = pm.cards[index].created,
                                              !.type = pm.cards[index].type,
                                              !.modified = clock]),
                !.categories = @ \cup {entry.category}]
    /\ hist' = Keep
    /\ clock' = clock + 1
    /\ UNCHANGED <<master_file, salt_file, data_file, um, phase, backup>>

\* delete_card
DeleteCard ==
    /\ phase = "main"
    /\ \E index \in 1..Len(pm.cards) :
        pm' = [pm EXCEPT !.cards = RemoveAt(@, index)]
    /\ hist' = Keep
    /\ UNCHANGED <<master_file, salt_file, data_file, um, phase, clock,
                   backup>>

\* add_identity
AddIdentity ==
    /\ phase = "main"
    /\ clock < MaxClock
    /\ \E entry \in NewIdentities(clock) :
        pm' = [pm EXCEPT
                !.identities = Append(@, [entry EXCEPT !.modified = clock]),
                !.categories = @ \cup {entry.category}]
    /\ hist' = Keep
    /\ clock' = clock + 1
    /\ UNCHANGED <<master_file, salt_file, data_file, um, phase, backup>>

\* update_identity
UpdateIdentity ==
    /\ phase = "main"
    /\ clock < MaxClock
    /\ \E index \in 1..Len(pm.identities), entry \in NewIdentities(clock) :
        pm' = [pm EXCEPT
                !.identities = ReplaceAt(@, index,
                                [entry EXCEPT !.created = pm.identities[index].created,
                                              !.type = pm.identities[index].type,
                                              !.modified = clock]),
                !.categories = @ \cup {entry.category}]
    /\ hist' = Keep
    /\ clock' = clock + 1
    /\ UNCHANGED <<master_file, salt_file, data_file, um, phase, backup>>

\* delete_identity
DeleteIdentity ==
    /\ phase = "main"
    /\ \E index \in 1..Len(pm.identities) :
        pm' = [pm EXCEPT !.identities = RemoveAt(@, index)]
    /\ hist' = Keep
    /\ UNCHANGED <<master_file, salt_file, data_file, um, phase, clock,
                   backup>>

\* add_file
AddFile ==
    /\ phase = "main"
    /\ clock < MaxClock
    /\ \E entry \in NewFiles(clock) :
        pm' = [pm EXCEPT
                !.files = Append(@, [entry EXCEPT !.modified = clock]),
                !.categories = @ \cup {entry.category}]
    /\ hist' = Keep
    /\ clock' = clock + 1
    /\ UNCHANGED <<master_file, salt_file, data_file, um, phase, backup>>

\* update_file
UpdateFile ==
    /\ phase = "main"
    /\ clock < MaxClock
    /\ \E index \in 1..Len(pm.files), entry \in NewFiles(clock) :
        pm' = [pm EXCEPT
                !.files = ReplaceAt(@, index,
                                [entry EXCEPT !.created = pm.files[index].created,
                                              !.type = pm.files[index].type,
                                              !.modified = clock]),
                !.categories = @ \cup {entry.category}]
    /\ hist' = Keep
    /\ clock' = clock + 1
    /\ UNCHANGED <<master_file, salt_file, data_file, um, phase, backup>>

\* delete_file
DeleteFile ==
    /\ phase = "main"
    /\ \E index \in 1..Len(pm.files) :
        pm' = [pm EXCEPT !.files = RemoveAt(@, index)]
    /\ hist' = Keep
    /\ UNCHANGED <<master_file, salt_file, data_file, um, phase, clock,
                   backup>>

----------------------------------------------------------------------------
(* Saving, exporting, importing, leaving *)

\* save_data_with_status
Save ==
    /\ phase = "main"
    /\ \E o \in SaveOutcomes(pm, data_file, clock) :
        /\ data_file' = o.file
        /\ hist' = [Saved(Keep, pm, o) EXCEPT
                        !.op = IF o.error = NoError THEN "save"
                               ELSE "save_failed",
                        !.overwrote = o.error = NoError /\ FruitlessLoad]
    /\ UNCHANGED <<master_file, salt_file, um, pm, phase, clock, backup>>

\* MainWindow.export_data: the envelope is written to a file of the
\* user's choice.  The model follows one backup file, written once.
Export ==
    /\ phase = "main"
    /\ ~backup.exists
    /\ backup' = File(export_data(pm, clock))
    /\ hist' = Keep
    /\ UNCHANGED <<master_file, salt_file, data_file, um, pm, phase, clock>>

\* (mutant) the import also stores the salt of the backup as the vault salt
Import_persist_salt ==
    /\ phase = "main"
    /\ backup.exists
    /\ is_valid_lp_file(backup.bytes)
    /\ \E policy \in IF NumRecords(pm) > 0 THEN {"replace", "merge"}
                     ELSE {"none"} :
        LET lp_data == backup.bytes
            before == IF policy = "replace" THEN Cleared(pm) ELSE pm
        IN IF ImportError(lp_data) # NoError
           THEN /\ pm' = before
                /\ hist' = [Keep EXCEPT !.op = "import", !.pre = pm,
                                !.policy = policy,
                                !.error = ImportError(lp_data)]
                /\ UNCHANGED data_file
           ELSE \E o \in SaveOutcomes(import_data(before, lp_data),
                                      data_file, clock) :
                /\ pm' = import_data(before, lp_data)
                /\ data_file' = o.file
                /\ hist' = [Saved(Keep, import_data(before, lp_data), o)
                                EXCEPT !.op = "import", !.pre = pm,
                                       !.policy = policy,
                                       !.error = NoError]
    /\ salt_file' = IF ImportError(backup.bytes) = NoError
                    THEN get_salt(ImportEM(pm, backup.bytes.json.doc))
                    ELSE salt_file
    /\ UNCHANGED <<master_file, um, phase, clock, backup>>

\* MainWindow.import_data with the policy chosen in the dialog ("none"
\* when the vault is empty and no dialog is shown)
Import ==
    /\ phase = "main"
    /\ backup.exists
    /\ is_valid_lp_file(backup.bytes)
    /\ \E policy \in IF NumRecords(pm) > 0 THEN {"replace", "merge"}
                     ELSE {"none"} :
        LET lp_data == backup.bytes
            before == IF policy = "replace" THEN Cleared(pm) ELSE pm
        IN IF ImportError(lp_data) # NoError
           THEN /\ pm' = before
                /\ hist' = [Keep EXCEPT !.op = "import", !.pre = pm,
                                !.policy = policy,
                                !.error = ImportError(lp_data)]
                /\ UNCHANGED data_file
           ELSE \E o \in SaveOutcomes(import_data(before, lp_data),
                                      data_file, clock) :
                /\ pm' = import_data(before, lp_data)
                /\ data_file' = o.file
                /\ hist' = [Saved(Keep, import_data(before, lp_data), o)
                                EXCEPT !.op = "import", !.pre = pm,
                                       !.policy = policy,
                                       !.error = NoError]
    /\ UNCHANGED <<master_file, salt_file, um, phase, clock, backup>>

\* MainWindow.delete_account, confirmed with password p, followed by
\* UserManager.delete_user_data and sys.exit()
DeleteAccount ==
    /\ phase = "main"
    /\ \E p \in MasterPasswords :
        IF verify_master_password(um, p)
        THEN /\ master_file' = NoHash
             /\ salt_file' = Absent
             /\ data_file' = NoFile
             /\ um' = NoUM
             /\ pm' = NoPM
             /\ phase' = "off"
             /\ hist' = [NoHist EXCEPT !.op = "delete"]
        ELSE /\ hist' = Keep
             /\ UNCHANGED <<master_file, salt_file, data_file, um, pm,
                            phase>>
    /\ UNCHANGED <<clock, backup>>

\* closeEvent: save_data, then the process ends
Close ==
    /\ phase = "main"
    /\ \E o \in SaveOutcomes(pm, data_file, clock) :
        /\ data_file' = o.file
        /\ hist' = [Saved(Keep, pm, o) EXCEPT
                        !.error = NoError,
                        !.prefile = NoFile,
                        !.overwrote = o.error = NoError /\ FruitlessLoad]
    /\ um' = NoUM
    /\ pm' = NoPM
    /\ phase' = "off"
    /\ UNCHANGED <<master_file, salt_file, clock, backup>>

\* one installation: sessions, the fifteen mutations, saving
Next ==
    \/ Start \/ CreateVault \/ Login \/ QuitStartup
    \/ AddPassword \/ UpdatePassword \/ DeletePassword
    \/ AddNote \/ UpdateNote \/ DeleteNote
    \/ AddCard \/ UpdateCard \/ DeleteCard
    \/ AddIdentity \/ UpdateIdentity \/ DeleteIdentity
    \/ AddFile \/ UpdateFile \/ DeleteFile
    \/ Save \/ DeleteAccount \/ Close

Spec == Init /\ [][Next]_vars

\* backups: export, import, restore into a new installation; the vault
\* is edited through its password collection
NextBackup ==
    \/ Start \/ CreateVault \/ Login \/ Restore \/ QuitStartup
    \/ AddPassword \/ UpdatePassword \/ DeletePassword
    \/ Save \/ Export \/ Import \/ DeleteAccount \/ Close

SpecBackup == Init /\ [][NextBackup]_vars

----------------------------------------------------------------------------
(* Claims about the backup flows *)

\* the step authenticates: the password it was given verifies against the
\* stored hash, or no master password was set and the step stored its hash
Authenticates ==
    \/ /\ hist'.op = "login"
       /\ verify_master_password(um, hist'.pw)
    \/ /\ hist'.op \in {"create", "restore"}
       /\ ~is_master_password_set(um)
       /\ master_file' = hashpw(hist'.pw)

KeyedByEmbeddedSalt(b) ==
    LET data == b.json.doc
    IN /\ IsB64(data.encryption_salt)
       /\ \A kind \in Kinds : \A i \in 1..Len(data[kind]) :
            \A f \in TokenFields(kind) :
                /\ IsToken(data[kind][i][f])
                /\ data[kind][i][f].key.salt = b64decode(data.encryption_salt)

\* every token of the envelope b was made with password pw
KeyedByPassword(b, pw) ==
    LET data == b.json.doc
    IN \A kind \in Kinds : \A i \in 1..Len(data[kind]) :
        \A f \in TokenFields(kind) : data[kind][i][f].key.pw = pw

\* C5: the salt embedded in every envelope export_data wrote (the vault
\* file, the backup) is the salt of the key its tokens were made with,
\* whatever sessions, mutations, imports and exports came before; and
\* import_data leaves the engine with a manager derived from the embedded
\* salt, with which every record of a same-password backup decrypts.
C5_EnvelopeSalt ==
    /\ \A f \in {data_file, backup} :
        (f.exists /\ f.bytes.json.t = "doc") => KeyedByEmbeddedSalt(f.bytes)
    /\ (hist.op = "import" /\ hist.error = NoError) =>
        LET data == backup.bytes.json.doc
        IN /\ pm.encryption_manager =
                EncryptionManager(hist.pre.master_password,
                                  b64decode(data.encryption_salt))
           /\ KeyedByPassword(backup.bytes, hist.pre.master_password) =>
                NumRecords(pm) = DocRecords(data)

\* an import of a backup made under another salt, saved to the vault file
C5_Witness ==
    /\ hist.op = "import"
    /\ hist.error = NoError
    /\ get_salt(hist.pre.encryption_manager)
        # b64decode(backup.bytes.json.doc.encryption_salt)
    /\ KeyedByPassword(backup.bytes, hist.pre.master_password)
    /\ NumRecords(pm) > 0
    /\ data_file.exists
    /\ data_file.bytes.json.t = "doc"
    /\ DocRecords(data_file.bytes.json.doc) > 0
    /\ b64decode(data_file.bytes.json.doc.encryption_salt) # salt_file

\* the salt embedded in the complete envelope of the file f
EmbeddedSalt(f) == b64decode(f.bytes.json.doc.encryption_salt)

\* C26: an import makes the session key the one derived from the master
\* password and the salt S embedded in the backup, and leaves the vault
\* salt file alone; within a session the key changes by import only, and
\* every envelope written (save, import, close, export) embeds the salt
\* of the session key; a later login, whose vault file embeds a salt that
\* differs from the vault salt file, loads every record that was saved.
C26_ImportAdoptsSalt ==
    /\ [][/\ (hist'.op = "import" /\ hist'.error = NoError) =>
                /\ pm'.encryption_manager =
                     EncryptionManager(pm.master_password, EmbeddedSalt(backup))
                /\ salt_file' = salt_file
                /\ um' = um
          /\ (phase = "main" /\ phase' = "main"
                /\ pm'.encryption_manager # pm.encryption_manager)
              => hist'.op = "import"
          /\ (phase = "main" /\ data_file' # data_file /\ data_file'.exists
                /\ data_file'.bytes.json.t = "doc")
              => EmbeddedSalt(data_file') =
                    ExportSalt(IF hist'.op = "import" THEN pm' ELSE pm)
          /\ (phase = "main" /\ backup' # backup)
              => EmbeddedSalt(backup') = ExportSalt(pm)]_vars
    /\ []((/\ hist.op = "login" /\ phase = "main" /\ hist.saved_ok
            /\ data_file.exists /\ data_file.bytes.json.t = "doc"
            /\ EmbeddedSalt(data_file) # salt_file)
           => /\ Collections(pm) = hist.saved
              /\ hist.error = NoError
              /\ ExportSalt(pm) = EmbeddedSalt(data_file)
              /\ get_vault_salt(um) = salt_file)

\* a session opened after an import from a backup made under another salt:
\* the vault file embeds that salt, the salt file holds the account's, and
\* the records are loaded
C26_Witness ==
    /\ hist.op = "login"
    /\ phase = "main"
    /\ hist.saved_ok
    /\ data_file.exists
    /\ data_file.bytes.json.t = "doc"
    /\ backup.exists
    /\ backup.bytes.json.t = "doc"
    /\ EmbeddedSalt(data_file) = EmbeddedSalt(backup)
    /\ EmbeddedSalt(data_file) # salt_file
    /\ salt_file # Absent
    /\ NumRecords(pm) > 0
    /\ Collections(pm) = hist.saved

\* the first record of the envelope b, in the order import_data reads the
\* collections, does not decrypt with password pw
FirstRecordRaises(pw, b) ==
    LET data == b.json.doc
        em == EncryptionManager(pw, b64decode(data.encryption_salt))
    IN IF Len(data.passwords) > 0 THEN PasswordRaises(em, data.passwords[1])
       ELSE IF Len(data.notes) > 0 THEN NoteRaises(em, data.notes[1])
       ELSE IF Len(data.cards) > 0 THEN CardRaises(em, data.cards[1])
       ELSE IF Len(data.identities) > 0
            THEN IdentityRaises(em, data.identities[1])
       ELSE IF Len(data.files) > 0 THEN FileRaises(em, data.files[1])
       ELSE FALSE

\* C8: when the password typed in the restore flow does not decrypt the
\* first record of the backup, the flow stops: no hash and no salt are
\* stored, the vault file is as it was, and no main window opens.
C8_RestoreStops ==
    (/\ hist.op = "restore"
     /\ backup.bytes.json.t = "doc"
     /\ FirstRecordRaises(hist.pw, backup.bytes)) =>
        /\ master_file = NoHash
        /\ salt_file = Absent
        /\ data_file = hist.prefile
        /\ phase = "startup"

\* the records import_data reads out of the envelope b for engine p
ImportedRecords(p, b) == Collections(import_data(Cleared(p), b))

\* C11: an import with the merge policy leaves in each collection the
\* records it held before, in their order, followed by the imported
\* records; with the replace policy it leaves the imported records only.
C11_ImportPolicy ==
    (hist.op = "import" /\ hist.error = NoError) =>
        LET imported == ImportedRecords(hist.pre, backup.bytes)
        IN \A kind \in Kinds :
            pm[kind] = IF hist.policy = "merge"
                       THEN hist.pre[kind] \o imported[kind]
                       ELSE imported[kind]

----------------------------------------------------------------------------
(* Claims about saving and loading *)

\* C6: a login with the password of the account succeeds, and when the
\* vault file is the envelope of the last successful save_data, the
\* collections load_data leaves in the new engine are the ones that save
\* wrote, field for field.
C6_CrossSession ==
    (hist.op = "login" /\ checkpw(hist.pw, master_file)) =>
        /\ phase = "main"
        /\ hist.saved_ok =>
            /\ Collections(pm) = hist.saved
            /\ hist.error = NoError

\* a second session has loaded two records: a password with an attachment
\* and a file
C6_Witness ==
    /\ hist.op = "login"
    /\ phase = "main"
    /\ hist.saved_ok
    /\ Collections(pm) = hist.saved
    /\ Len(pm.passwords) > 0
    /\ Len(pm.passwords[1].attached_files) > 0
    /\ Len(pm.files) > 0

\* C7: after a save_data that failed, the vault file is still the
\* complete envelope it was before the call.
C7_AtomicSave ==
    (/\ hist.op = "save_failed"
     /\ hist.prefile.exists
     /\ BytesLen(hist.prefile.bytes) > 0
     /\ ImportError(hist.prefile.bytes) = NoError) =>
        data_file = hist.prefile

\* C9: when import_data raises a format error inside load_data, the
\* collections and categories of the engine are empty and the caller of
\* load_data receives the error.
C9_LoadFailureSurfaced ==
    (/\ hist.op = "login"
     /\ phase = "main"
     /\ data_file.exists
     /\ LoadError(data_file) \in FormatErrors) =>
        /\ NumRecords(pm) = 0
        /\ pm.categories = {}
        /\ hist.error = LoadError(data_file)

\* C30: load_data raises nothing and leaves the vault file as it is; when
\* it loaded no record from a file that exists, the engine is empty, and the
\* next save_data that completes, from the save action or on close,
\* replaces the file by an envelope without records.
C30_SaveAfterFruitlessLoad ==
    /\ [][/\ hist'.op \in {"login", "create"} =>
                /\ data_file' = data_file
                /\ hist'.error = NoError
          /\ (FruitlessLoad /\ (hist'.op = "save" \/ hist'.overwrote))
              => /\ hist'.overwrote
                 /\ data_file' # data_file
                 /\ data_file'.bytes.json.t = "doc"
                 /\ DocRecords(data_file'.bytes.json.doc) = 0
          /\ (FruitlessLoad /\ phase' = "off" /\ hist'.op # "delete"
                /\ data_file' # data_file
                /\ data_file'.bytes.json.t = "doc")
              => hist'.overwrote]_vars
    /\ []((hist.op = "login" /\ phase = "main" /\ Unreadable(data_file))
            => NumRecords(pm) = 0 /\ pm.categories = {})

\* the window was closed right after a login that found a truncated vault
\* file: the file is now a complete envelope without records
C30_Witness ==
    /\ phase = "off"
    /\ hist.overwrote
    /\ data_file.exists
    /\ data_file.bytes.json.t = "doc"
    /\ DocRecords(data_file.bytes.json.doc) = 0
    /\ master_file # NoHash

----------------------------------------------------------------------------
(* Claims about the engine's mutations *)

\* a step of add_X, update_X or delete_X
Mutation ==
    \/ AddPassword \/ UpdatePassword \/ DeletePassword
    \/ AddNote \/ UpdateNote \/ DeleteNote
    \/ AddCard \/ UpdateCard \/ DeleteCard
    \/ AddIdentity \/ UpdateIdentity \/ DeleteIdentity
    \/ AddFile \/ UpdateFile \/ DeleteFile

StampedAt(p, q, now) ==
    \E kind \in Kinds : \E i \in 1..Len(q[kind]) :
        /\ i > Len(p[kind]) \/ q[kind][i] # p[kind][i]
        /\ q[kind][i].modified = now
        /\ q[kind][i].modified >= q[kind][i].created

\* C15: a step of add_X or update_X (the steps that read the clock)
\* leaves the record it stored with modified equal to the time of the
\* call, and no stored record is ever modified before it was created.
C15_ModifiedStamp ==
    /\ [](\A kind \in Kinds : \A i \in 1..Len(pm[kind]) :
            pm[kind][i].modified >= pm[kind][i].created)
    /\ [][clock' # clock => StampedAt(pm, pm', clock)]_vars

\* a card edited after it was added
C15_Witness ==
    /\ phase = "main"
    /\ \E i \in 1..Len(pm.cards) :
        pm.cards[i].modified > pm.cards[i].created

\* C16: the created timestamp of a stored record does not change when
\* the record is edited through update_X, nor when the vault is saved and
\* loaded again.
C16_CreatedImmutable ==
    /\ [][(/\ clock' # clock
           /\ \A kind \in Kinds : Len(pm'[kind]) = Len(pm[kind])) =>
                \A kind \in Kinds : \A i \in 1..Len(pm[kind]) :
                    pm'[kind][i].created = pm[kind][i].created]_vars
    /\ []((hist.op = "login" /\ phase = "main" /\ hist.saved_ok) =>
            \A kind \in Kinds :
                /\ Len(pm[kind]) = Len(hist.saved[kind])
                /\ \A i \in 1..Len(pm[kind]) :
                    pm[kind][i].created = hist.saved[kind][i].created)

----------------------------------------------------------------------------
(* The favorites view on bounded vaults: records of every kind, favorited
   or not, are added to an engine, and the view is read *)

NewOf(kind, now) ==
    CASE kind = "passwords" -> NewPasswords(now)
      [] kind = "notes" -> NewNotes(now)
      [] kind = "cards" -> NewCards(now)
      [] kind = "identities" -> NewIdentities(now)
      [] kind = "files" -> NewFiles(now)

FavInit ==
    /\ master_file = NoHash
    /\ salt_file = Absent
    /\ data_file = NoFile
    /\ um = NoUM
    /\ pm \in {PasswordManager(p, "s1", "s1") : p \in MasterPasswords}
    /\ phase = "fav_build"
    /\ clock = 0
    /\ backup = NoFile
    /\ hist = NoHist

\* add_password ... add_file with the favourite box ticked or not.  The
\* records of one collection are told apart by their timestamps: the
\* k-th is built and stamped at time k.
FavAdd ==
    /\ phase = "fav_build"
    /\ NumRecords(pm) < MaxFavRecords
    /\ \E kind \in Kinds, is_favorite \in BOOLEAN :
        LET now == Len(pm[kind]) + 1
        IN \E entry \in NewOf(kind, now) :
            pm' = [pm EXCEPT
                    ![kind] = Append(@, [entry EXCEPT
                                            !.is_favorite = is_favorite,
                                            !.modified = now]),
                    !.categories = @ \cup {entry.category}]
    /\ UNCHANGED <<master_file, salt_file, data_file, um, phase, clock,
                   backup, hist>>

\* the favorites property is read (refresh of the favorites table)
Favorites ==
    /\ phase \in {"fav_build", "fav_view"}
    /\ pm' = favorites_assigns(pm)
    /\ hist' = [NoHist EXCEPT !.op = "favorites", !.pre = pm,
                              !.favs = favorites(pm)]
    /\ phase' = "fav_view"
    /\ UNCHANGED <<master_file, salt_file, data_file, um, clock, backup>>

FavNext == FavAdd \/ Favorites

SpecFavorites == FavInit /\ [][FavNext]_vars

TypeNames == <<"Password", "Secure Note", "Card", "Identity", "File">>

KindOrder == <<"passwords", "notes", "cards", "identities", "files">>

\* the record e without the attribute favorites assigns
Untyped(e) == [e EXCEPT !.type = Absent]

\* C12: the list favorites returns holds exactly the records whose
\* is_favorite is true, each tagged with the kind of its collection:
\* the favorite passwords, then notes, cards, identities, files, each
\* group in the order of its collection.
C12_FavoritesView ==
    hist.op = "favorites" =>
        LET favs == hist.favs
            group(k) == {i \in 1..Len(favs) : favs[i].type = TypeNames[k]}
            stored(k) == {i \in 1..Len(hist.pre[KindOrder[k]]) :
                            hist.pre[KindOrder[k]][i].is_favorite}
        IN /\ \A i \in 1..Len(favs) :
                favs[i].is_favorite /\ \E k \in 1..5 : i \in group(k)
           /\ \A k \in 1..5, l \in 1..5 :
                k < l => \A i \in group(k), j \in group(l) : i < j
           /\ \A k \in 1..5 :
                /\ Cardinality(group(k)) = Cardinality(stored(k))
                /\ \A i \in group(k) :
                    \E n \in stored(k) :
                        /\ Untyped(favs[i]) = Untyped(hist.pre[KindOrder[k]][n])
                        /\ Cardinality({j \in group(k) : j <= i})
                            = Cardinality({m \in stored(k) : m <= n})

\* one favorite in each of the five collections, and a record that is not
C12_Witness ==
    /\ hist.op = "favorites"
    /\ Len(hist.favs) = 5
    /\ \A k \in 1..5 : hist.favs[k].type = TypeNames[k]
    /\ NumRecords(hist.pre) > 5

\* C13: reading favorites changes no stored record, no collection and not
\* the category set.
C13_FavoritesReadOnly ==
    hist.op = "favorites" =>
        /\ Collections(pm) = Collections(hist.pre)
        /\ pm.categories = hist.pre.categories

----------------------------------------------------------------------------
(* The credential store on its own: UserManager objects are created, asked
   to set and verify passwords and to delete the user data, and the writes
   and removals may fail *)

UserInit ==
    /\ master_file = NoHash
    /\ salt_file = Absent
    /\ data_file = NoFile
    /\ um = NoUM
    /\ pm = NoPM
    /\ phase = "user"
    /\ clock = 0
    /\ backup = NoFile
    /\ hist = NoHist

\* UserManager(): a new object reads the two files
NewUserManager ==
    /\ phase = "user"
    /\ um' = UserManager(master_file, salt_file)
    /\ hist' = NoHist
    /\ UNCHANGED <<master_file, salt_file, data_file, pm, phase, clock, backup>>

\* set_master_password(p), as WelcomeDialog.handle_setup and
\* verify_and_restore call it
SetMasterPassword ==
    /\ phase = "user"
    /\ um.alive
    /\ \E p \in MasterPasswords, urandom \in Salts :
        \E o \in SetMasterPasswordOutcomes(um, p, master_file, salt_file,
                                           urandom) :
            /\ master_file' = o.master_file
            /\ salt_file' = o.salt_file
            /\ um' = o.um
            /\ hist' = [NoHist EXCEPT !.op = "set", !.pw = p,
                                      !.failed = o.failed,
                                      !.error = o.error,
                                      !.presalt = salt_file, !.preum = um]
    /\ UNCHANGED <<data_file, pm, phase, clock, backup>>

\* verify_master_password(p)
VerifyMasterPassword ==
    /\ phase = "user"
    /\ um.alive
    /\ \E p \in MasterPasswords :
        hist' = [NoHist EXCEPT !.op = "verify", !.pw = p,
                               !.result = verify_master_password(um, p)]
    /\ UNCHANGED <<master_file, salt_file, data_file, um, pm, phase, clock,
                   backup>>

\* the vault file is written by an engine built on the object
WriteVault ==
    /\ phase = "user"
    /\ um.alive
    /\ ~data_file.exists
    /\ \E p \in MasterPasswords, urandom \in Salts :
        data_file' = File(export_data(
                        PasswordManager(p, get_vault_salt(um), urandom),
                        clock))
    /\ hist' = NoHist
    /\ UNCHANGED <<master_file, salt_file, um, pm, phase, clock, backup>>

\* delete_user_data()
DeleteUserData ==
    /\ phase = "user"
    /\ um.alive
    /\ \E o \in DeleteOutcomes(master_file, salt_file, data_file) :
        /\ master_file' = o.master_file
        /\ salt_file' = o.salt_file
        /\ data_file' = o.data_file
        /\ hist' = [NoHist EXCEPT !.op = "delete", !.error = o.error,
                                  !.presalt = salt_file]
    /\ UNCHANGED <<um, pm, phase, clock, backup>>

UserNext ==
    \/ NewUserManager \/ SetMasterPassword \/ VerifyMasterPassword
    \/ WriteVault \/ DeleteUserData

SpecUser == UserInit /\ [][UserNext]_vars

\* C17: verify_master_password(p) answers by the stored credential: false
\* when no password was ever set, and once set_master_password(P) stored
\* P, true for P and false for every other password, on the object that
\* set it as on objects created later.
C17_Verification ==
    hist.op = "verify" =>
        hist.result = (master_file.algo = "bcrypt" /\ master_file.pw = hist.pw)

\* C18: a set_master_password whose writes succeed, on an object that
\* knows no salt while the file holds none, leaves a new salt in the
\* file; and a salt that was written to the file stays as it is through
\* every operation but the deletion of the user data.
C18_SaltWriteOnce ==
    /\ []((/\ hist.op = "set"
           /\ ~hist.failed
           /\ hist.presalt = Absent
           /\ get_vault_salt(hist.preum) = Absent) => salt_file \in Salts)
    /\ [][(salt_file \in Salts /\ salt_file' # salt_file) =>
            hist'.op = "delete"]_vars

\* set_master_password on an object that found a salt in the file: the
\* password is stored, the salt is the one that was there
C18_Witness ==
    /\ hist.op = "set"
    /\ ~hist.failed
    /\ hist.presalt \in Salts
    /\ salt_file = hist.presalt
    /\ master_file = hashpw(hist.pw)

\* C19: a set_master_password during which the write of the hash file or
\* of the salt file failed raises to its caller.
C19_SetupWriteFailure ==
    (hist.op = "set" /\ hist.failed) => hist.error # NoError

\* C20: after delete_user_data returned without error the three files are
\* absent and the object reports no credential: no password verifies, no
\* master password is set, no vault salt is known.
C20_AccountDeletion ==
    (hist.op = "delete" /\ hist.error = NoError) =>
        /\ master_file = NoHash
        /\ salt_file = Absent
        /\ ~data_file.exists
        /\ \A p \in MasterPasswords : ~verify_master_password(um, p)
        /\ ~is_master_password_set(um)
        /\ get_vault_salt(um) = Absent

----------------------------------------------------------------------------
(* The entry forms.  Each dialog reads its category field and builds (or
   edits) the object the engine is then given; the engine is followed
   through additions, edits, deletions and a save followed by a load in a
   new session.  The time does not pass in this specification. *)

MaxFormRecords == 3

\* what the user can leave in a category field
CategoryTexts == {"", " ", "Work"}

\* str.strip on those texts
strip(text) == IF text = " " THEN "" ELSE text

\* PasswordEntryDialog.get_entry: category_edit.text() or "General"
PasswordEntryDialog_get_entry(text, now) ==
    PasswordEntry("Example", "u", "p@ss", "https://example", "pin 1234",
                  IF text = "" THEN "General" ELSE text, FALSE, <<>>, now)

\* SecureNoteDialog.get_note: category_edit.currentText()
SecureNoteDialog_get_note(text, now) ==
    SecureNote("Wifi", "key 42", text, FALSE, <<>>, now)

\* CardEntryDialog.handle_save: category_edit.text().strip()
CardEntryDialog_handle_save(text, now) ==
    CardEntry("Visa", "Visa", "4111", "A USER", "01", "30", "123", "",
              strip(text), FALSE, <<>>, now)

\* IdentityEntryDialog.handle_save: category_edit.text().strip()
IdentityEntryDialog_handle_save(text, now) ==
    IdentityEntry("Me", "A", "User", "a@x", "", "", "", "", "", "", "",
                  "078-05", "D123", "P456", "", strip(text), FALSE, <<>>,
                  now)

\* FileEntryDialog.handle_save: category_edit.currentText().strip()
FileEntryDialog_handle_save(text, now) ==
    FileEntry("Key", "d2", "key.bin", "bin", 2, strip(text), "backup key",
              FALSE, now)

\* add_X: stamp, append, add the category
add_entry(p, kind, entry, now) ==
    [p EXCEPT ![kind] = Append(@, [entry EXCEPT !.modified = now]),
              !.categories = @ \cup {entry.category}]

\* (mutant) update_X forgets the category of the entry
update_entry_no_category(p, kind, index, entry, now) ==
    [p EXCEPT ![kind] = ReplaceAt(@, index, [entry EXCEPT !.modified = now])]

\* update_X: stamp, store at the index, add the category
update_entry(p, kind, index, entry, now) ==
    [p EXCEPT ![kind] = ReplaceAt(@, index, [entry EXCEPT !.modified = now]),
              !.categories = @ \cup {entry.category}]

\* delete_X: del self.X[index]
delete_entry(p, kind, index) ==
    [p EXCEPT ![kind] = RemoveAt(@, index)]

\* the object a dialog opened on the record old hands back: the password
\* and note dialogs build a new one, the others assign to old
Edited(old, entry) ==
    [entry EXCEPT !.created = old.created, !.type = old.type]

FormsInit ==
    /\ master_file = NoHash
    /\ salt_file = Absent
    /\ data_file = NoFile
    /\ um = NoUM
    /\ pm = PasswordManager("correct-horse", "s1", "s1")
    /\ phase = "forms"
    /\ clock = 0
    /\ backup = NoFile
    /\ hist = NoHist

FormsFrame ==
    UNCHANGED <<master_file, salt_file, data_file, um, phase, clock, backup>>

\* the object the entry dialog of a kind hands back
DialogEntry(kind, text, now) ==
    CASE kind = "passwords" -> PasswordEntryDialog_get_entry(text, now)
      [] kind = "notes" -> SecureNoteDialog_get_note(text, now)
      [] kind = "cards" -> CardEntryDialog_handle_save(text, now)
      [] kind = "identities" -> IdentityEntryDialog_handle_save(text, now)
      [] kind = "files" -> FileEntryDialog_handle_save(text, now)

\* add_password, add_note, add_card, add_identity, add_file with the entry
\* of the dialog
FormAdd ==
    /\ phase = "forms"
    /\ NumRecords(pm) < MaxFormRecords
    /\ \E kind \in Kinds, text \in CategoryTexts :
        pm' = add_entry(pm, kind, DialogEntry(kind, text, clock), clock)
    /\ hist' = [NoHist EXCEPT !.op = "add"]
    /\ FormsFrame

\* update_password, update_note, update_card, update_identity, update_file
\* with the entry of the dialog opened on the record at the index
FormUpdate ==
    /\ phase = "forms"
    /\ \E kind \in Kinds, text \in CategoryTexts :
        \E index \in 1..Len(pm[kind]) :
            pm' = update_entry(pm, kind, index,
                    IF kind \in {"passwords", "notes"}
                    THEN DialogEntry(kind, text, clock)
                    ELSE Edited(pm[kind][index],
                                DialogEntry(kind, text, clock)),
                    clock)
    /\ hist' = [NoHist EXCEPT !.op = "update"]
    /\ FormsFrame

\* delete_password, delete_note, delete_card, delete_identity, delete_file
FormDelete ==
    /\ phase = "forms"
    /\ \E kind \in Kinds : \E index \in 1..Len(pm[kind]) :
        pm' = delete_entry(pm, kind, index)
    /\ hist' = [NoHist EXCEPT !.op = "delete"]
    /\ FormsFrame

\* save_data, then load_data in the engine of a new session
FormReload ==
    /\ phase = "forms"
    /\ pm' = load_data(PasswordManager(pm.master_password, "s1", "s1"),
                       File(export_data(pm, clock)))
    /\ hist' = [NoHist EXCEPT !.op = "reload", !.pre = pm]
    /\ FormsFrame

FormsNext == FormAdd \/ FormUpdate \/ FormDelete \/ FormReload

SpecForms == FormsInit /\ [][FormsNext]_vars

\* C23: every record of the five collections has a non-empty category.
C23_CategoryNeverEmpty ==
    pm # NoPM =>
        \A kind \in Kinds : \A i \in 1..Len(pm[kind]) :
            pm[kind][i].category # ""

\* the categories of the records the engine p holds
UsedCategories(p) ==
    UNION {{p[kind][i].category : i \in 1..Len(p[kind])} : kind \in Kinds}

\* the records of p filed under category c
RecordsIn(p, c) ==
    LET n(kind) == Cardinality({i \in 1..Len(p[kind]) :
                                    p[kind][i].category = c})
    IN n("passwords") + n("notes") + n("cards") + n("identities")
        + n("files")

\* C25: the category set contains the category of every record the
\* engine holds; an addition, an edit or a deletion never removes a name
\* from it, and adds at most the category of the entry it was given; a
\* load leaves exactly the categories of the records loaded.
C25_CategorySet ==
    /\ [](pm # NoPM => UsedCategories(pm) \subseteq pm.categories)
    /\ [][/\ hist'.op \in {"add", "update", "delete"} =>
                /\ pm.categories \subseteq pm'.categories
                /\ Cardinality(pm'.categories \ pm.categories) <= 1
                /\ pm'.categories \ pm.categories \subseteq UsedCategories(pm')
          /\ hist'.op = "delete" => pm'.categories = pm.categories
          /\ hist'.op = "reload" => pm'.categories = UsedCategories(pm)]_vars

\* two records share "Work", and the set still holds a category whose last
\* record was deleted
C25_Witness ==
    /\ phase = "forms"
    /\ hist.op = "delete"
    /\ RecordsIn(pm, "Work") >= 2
    /\ "Work" \in pm.categories
    /\ pm.categories \ UsedCategories(pm) # {}

----------------------------------------------------------------------------
(* PasswordGenerator.  A string is the sequence of its characters.  The
   four alphabets are cut down to two characters each; lowercase,
   uppercase and digits keep one character of the "similar" list, as the
   real alphabets do, and symbols keep none. *)

MaxGenLength == 4

lowercase == <<"a", "l">>
uppercase == <<"A", "I">>
digits == <<"2", "1">>
symbols == <<"!", "?">>

\* lines 34-36: the characters exclude_similar removes
Similar == {"l", "1", "I", "O", "0", "S", "5"}

NotSimilar(c) == c \notin Similar

\* lines 23-36
Charset(use_uppercase, use_digits, use_symbols, exclude_similar) ==
    LET chars == lowercase
                 \o (IF use_uppercase THEN uppercase ELSE <<>>)
                 \o (IF use_digits THEN digits ELSE <<>>)
                 \o (IF use_symbols THEN symbols ELSE <<>>)
    IN IF exclude_similar THEN SelectSeq(chars, NotSimilar) ELSE chars

\* password[n:]
Slice(password, n) ==
    IF n >= Len(password) THEN <<>>
    ELSE SubSeq(password, n + 1, Len(password))

\* any(c in alphabet for c in password)
AnyIn(password, alphabet) ==
    \E i \in 1..Len(password) : password[i] \in Range(alphabet)

\* lines 44-49: one "ensure" step; secrets.choice may return any character
\* of the alphabet
Ensure(password, use, alphabet, n) ==
    IF use /\ ~AnyIn(password, alphabet)
    THEN {<<c>> \o Slice(password, n) : c \in Range(alphabet)}
    ELSE {password}

\* (mutant) the test of line 38 is "<="
GenerateOutcomes_off_by_one(length, use_uppercase, use_digits, use_symbols, exclude_similar) ==
    LET chars == Charset(use_uppercase, use_digits, use_symbols,
                         exclude_similar)
    IN IF Len(chars) <= length
       THEN {[raised |-> TRUE, password |-> <<>>]}
       ELSE {[raised |-> FALSE, password |-> p3] :
                p3 \in UNION {UNION {Ensure(p2, use_symbols, symbols, 3) :
                                p2 \in Ensure(p1, use_digits, digits, 2)} :
                    p1 \in UNION {Ensure(p0, use_uppercase, uppercase, 1) :
                                p0 \in [1..length -> Range(chars)]}}}

\* generate_password: what it raises or returns, over every outcome of
\* secrets.choice
GenerateOutcomes(length, use_uppercase, use_digits, use_symbols, exclude_similar) ==
    LET chars == Charset(use_uppercase, use_digits, use_symbols,
                         exclude_similar)
    IN IF Len(chars) < length
       THEN {[raised |-> TRUE, password |-> <<>>]}
       ELSE {[raised |-> FALSE, password |-> p3] :
                p3 \in UNION {UNION {Ensure(p2, use_symbols, symbols, 3) :
                                p2 \in Ensure(p1, use_digits, digits, 2)} :
                    p1 \in UNION {Ensure(p0, use_uppercase, uppercase, 1) :
                                p0 \in [1..length -> Range(chars)]}}}

GenInit ==
    /\ master_file = NoHash
    /\ salt_file = Absent
    /\ data_file = NoFile
    /\ um = NoUM
    /\ pm = NoPM
    /\ phase = "generator"
    /\ clock = 0
    /\ backup = NoFile
    /\ hist = NoHist

\* one call of generate_password
GeneratePassword ==
    /\ phase = "generator"
    /\ \E length \in 0..MaxGenLength, use_uppercase \in BOOLEAN,
          use_digits \in BOOLEAN, use_symbols \in BOOLEAN,
          exclude_similar \in BOOLEAN :
        \E o \in GenerateOutcomes(length, use_uppercase, use_digits,
                                  use_symbols, exclude_similar) :
            hist' = [NoHist EXCEPT
                        !.op = "generate",
                        !.gen = [length |-> length,
                                 use_uppercase |-> use_uppercase,
                                 use_digits |-> use_digits,
                                 use_symbols |-> use_symbols,
                                 exclude_similar |-> exclude_similar,
                                 raised |-> o.raised,
                                 password |-> o.password]]
    /\ phase' = "generated"
    /\ UNCHANGED <<master_file, salt_file, data_file, um, pm, clock, backup>>

GenNext == GeneratePassword

SpecGenerator == GenInit /\ [][GenNext]_vars

\* the characters the options of the call g select
Selected(g) ==
    {c \in Range(lowercase) \cup Range(uppercase) \cup Range(digits)
            \cup Range(symbols) :
        /\ \/ c \in Range(lowercase)
           \/ g.use_uppercase /\ c \in Range(uppercase)
           \/ g.use_digits /\ c \in Range(digits)
           \/ g.use_symbols /\ c \in Range(symbols)
        /\ ~(g.exclude_similar /\ c \in Similar)}

\* C24: generate_password raises, and returns nothing, exactly when the
\* characters its options select are fewer than the requested length.
C24_GeneratorValidation ==
    hist.op = "generate" =>
        /\ hist.gen.raised <=> Cardinality(Selected(hist.gen)) < hist.gen.length
        /\ hist.gen.raised => hist.gen.password = <<>>

\* a call that raised because excluding the similar characters left one
\* character too few
C24_Witness ==
    /\ hist.op = "generate"
    /\ hist.gen.raised
    /\ hist.gen.exclude_similar
    /\ hist.gen.use_digits
    /\ hist.gen.length = Cardinality(Selected(hist.gen)) + 1

\* C27: a returned password holds a character of every selected category.
C27_CategoryCoverage ==
    (hist.op = "generate" /\ ~hist.gen.raised) =>
        /\ hist.gen.use_uppercase => AnyIn(hist.gen.password, uppercase)
        /\ hist.gen.use_digits => AnyIn(hist.gen.password, digits)
        /\ hist.gen.use_symbols => AnyIn(hist.gen.password, symbols)

\* C28: a returned password has exactly the requested length.
C28_GeneratorLength ==
    (hist.op = "generate" /\ ~hist.gen.raised) =>
        Len(hist.gen.password) = hist.gen.length

====
